---- MODULE Spec2Model ----
(***************************************************************************)
(* The Darknet frontend of nnvm (nnvm/python/nnvm/frontend/darknet.py):    *)
(* GraphProto.from_darknet walks the layer list of a parsed network,       *)
(* converts every layer into graph symbols and collects the parameter      *)
(* table.  The model keeps the GraphProto fields, the graph library's      *)
(* nodes, the Python list objects the traversal shares between entries,    *)
(* and the position of the loop.                                           *)
(***************************************************************************)
EXTENDS Integers, Sequences, FiniteSets, TLC

VARIABLES
    net,         \* self.net.layers, 0-based: the parsed network
    pc,          \* "running" | "done" | "error": where from_darknet stands
    idx,         \* the loop variable i of from_darknet
    sym,         \* the local variable sym of from_darknet
    insym,       \* the sym _preproc_layer returned in the latest step
    sym_array,   \* self._sym_array
    tvmparams,   \* self._tvmparams
    outs,        \* self._outs
    state_ctr,   \* self._state_ctr
    graph,       \* the nodes the graph library has built, in creation order
    lists,       \* the Python list objects the traversal has created
    acclog,      \* history: every extra output in the order it was accumulated
    paramlog,    \* history: the key of every write to self._tvmparams, in order
    statelog,    \* history: the name of every state variable made, in order
    err,         \* the exception that ended the run, "" when none
    result,      \* what from_darknet returned
    peer,        \* a second GraphProto of the same process, its fields as a record
    call         \* a direct call of one conversion rule: its attrs and its state

vars == <<net, pc, idx, sym, insym, sym_array, tvmparams, outs, state_ctr,
          graph, lists, acclog, paramlog, statelog, err, result, peer, call>>

----------------------------------------------------------------------------
(* Bounds of the model. *)

MaxLayers == 3

MaxSteps == 2

MaxDim == 2

MaxPeerLayers == 2

MaxStride == 3

----------------------------------------------------------------------------
(* class LAYERTYPE *)

CONVOLUTIONAL == 0

DECONVOLUTIONAL == 1

CONNECTED == 2

MAXPOOL == 3

SOFTMAX == 4

DETECTION == 5

DROPOUT == 6

CROP == 7

ROUTE == 8

COST == 9

NORMALIZATION == 10

AVGPOOL == 11

LOCAL_ == 12

SHORTCUT == 13

ACTIVE == 14

RNN == 15

GRU == 16

LSTM == 17

CRNN == 18

BATCHNORM == 19

NETWORK == 20

XNOR == 21

REGION == 22

YOLO == 23

REORG == 24

UPSAMPLE == 25

LOGXENT == 26

L2NORM == 27

BLANK == 28

(* class ACTIVATION *)

LOGISTIC == 0

RELU == 1

RELIE == 2

LINEAR == 3

RAMP == 4

TANH == 5

PLSE == 6

LEAKY == 7

ELU == 8

(* The rest of class ACTIVATION *)

LOGGY == 9

STAIR == 10

HARDTAN == 11

LHTAN == 12

----------------------------------------------------------------------------
(* Python values.  A symbol is the index of its node in graph; a list is   *)
(* the index of its object in lists, so two entries can hold the same list *)
(* object.                                                                 *)

SymV(n) == [k |-> "sym", id |-> n]

ListV(r) == [k |-> "list", id |-> r]

Unbound == [k |-> "unbound", id |-> 0]

IsSym(v) == v.k = "sym"

(* Attribute values keep their Python type: str(3) is not 3.  A float is   *)
(* kept in tenths.                                                         *)
I(v) == [t |-> "int", v |-> v]

Fl(v) == [t |-> "float", v |-> v]

Tup(v) == [t |-> "tuple", v |-> v]

S(v) == [t |-> "str", v |-> v]

B(b) == [t |-> "bool", v |-> IF b THEN 1 ELSE 0]

(* int(x) of a str or a number. *)
PyInt(a) == a.v

(* a != b in Python: a str never equals a number. *)
PyNe(a, b) == IF (a.t = "str") # (b.t = "str") THEN TRUE ELSE a.v # b.v

(* attrs.get(key, default) *)
Get(attrs, key, default) == IF key \in DOMAIN attrs THEN attrs[key] ELSE default

(* A generated or given name; role is the suffix _get_tvm_params_name adds. *)
Name(hint, n, role) == [hint |-> hint, n |-> n, role |-> role]

NoName == Name("", -1, "")

----------------------------------------------------------------------------
(* The record m the operators below thread through a handler: the          *)
(* GraphProto fields, the library's nodes, the list objects, the pending   *)
(* exception, the local variables of the running functions (loc) and the   *)
(* out_name a conversion rule hands back.  A statement of the source is an *)
(* operator from m to m that names the locals it reads and writes; it      *)
(* leaves m alone once an exception is pending.                            *)

Raise(m, e) == IF m.err = "" THEN [m EXCEPT !.err = e] ELSE m

RaiseIf(on, m, e) == IF on THEN Raise(m, e) ELSE m

(* dst = v *)
Let(m, dst, v) ==
    IF m.err # "" THEN m ELSE [m EXCEPT !.loc = (dst :> v) @@ @]

(* dst = src *)
Move(m, dst, src) == Let(m, dst, m.loc[src])

(* *inputs: the elements of a list, or the symbol itself. *)
Elems(m, v) == IF v.k = "list" THEN m.lists[v.id] ELSE <<v>>

(* The ways a call names an argument: x, *x, x[i]. *)
R(r) == [r |-> r, how |-> "val", i |-> 0]

Star(r) == [r |-> r, how |-> "star", i |-> 0]

At(r, i) == [r |-> r, how |-> "at", i |-> i]

RECURSIVE Args(_, _)
Args(m, spec) ==
    IF spec = <<>> THEN <<>>
    ELSE (IF Head(spec).how = "star" THEN Elems(m, m.loc[Head(spec).r])
          ELSE IF Head(spec).how = "at"
          THEN <<Elems(m, m.loc[Head(spec).r])[Head(spec).i + 1]>>
          ELSE <<m.loc[Head(spec).r]>>) \o Args(m, Tail(spec))

(* dst = src[i] *)
LoadAt(m, dst, src, i) == Let(m, dst, Args(m, <<At(src, i)>>)[1])

(* The graph library, as section 6 of the specification gives it: a        *)
(* callable takes positional input symbols and attributes and returns a    *)
(* new symbol, whose generated name is unique.                             *)
GenName(g, op) ==
    Name(op, Cardinality({j \in 1..Len(g) : g[j].op = op /\ g[j].auto}), "")

Emit(m, dst, node) ==
    IF m.err # "" THEN m
    ELSE [m EXCEPT !.graph = Append(@, node),
                   !.loc = (dst :> SymV(Len(m.graph) + 1)) @@ @]

(* dst = get_nnvm_op(op)(args, **attrs) *)
NnvmOp(m, dst, op, spec, attrs) ==
    IF m.err # "" THEN m
    ELSE IF \E j \in 1..Len(Args(m, spec)) : ~IsSym(Args(m, spec)[j])
    THEN Raise(m, "TypeError")
    ELSE Emit(m, dst, [op |-> op, name |-> GenName(m.graph, op), auto |-> TRUE,
                       args |-> Args(m, spec), attrs |-> attrs])

NnvmOpIf(on, m, dst, op, spec, attrs) ==
    IF on THEN NnvmOp(m, dst, op, spec, attrs) ELSE m

(* dst = get_nnvm_op(op)(args, name=name, **attrs) *)
NnvmOpNamed(m, dst, op, name, spec, attrs) ==
    IF m.err # "" THEN m
    ELSE IF \E j \in 1..Len(Args(m, spec)) : ~IsSym(Args(m, spec)[j])
    THEN Raise(m, "TypeError")
    ELSE Emit(m, dst, [op |-> op, name |-> Name(name, -1, ""), auto |-> FALSE,
                       args |-> Args(m, spec), attrs |-> attrs])

NnvmOpNamedIf(on, m, dst, op, name, spec, attrs) ==
    IF on THEN NnvmOpNamed(m, dst, op, name, spec, attrs) ELSE m

(* dst = _sym.Variable(name, init=...) *)
Variable(m, dst, name) ==
    Emit(m, dst, [op |-> "Variable", name |-> name, auto |-> FALSE,
                  args |-> <<>>, attrs |-> <<>>])

(* dst = src[i]: output i of a symbol. *)
Pick(m, dst, src, i) ==
    NnvmOpNamed(m, dst, "__getitem__", "", <<R(src)>>, [index |-> i])

(* sym.list_output_names()[0].replace('_output', '') *)
OutName(m, v) == IF IsSym(v) THEN m.graph[v.id].name ELSE NoName

(* dst = [args]: a new Python list object. *)
NewList(m, dst, spec) ==
    IF m.err # "" THEN m
    ELSE [m EXCEPT !.lists = Append(@, Args(m, spec)),
                   !.loc = (dst :> ListV(Len(m.lists) + 1)) @@ @]

(* l.append(self._sym_array[j]) *)
ListAppendSym(m, l, j) ==
    IF m.err # "" THEN m
    ELSE IF j \notin DOMAIN m.sym_array THEN Raise(m, "KeyError")
    ELSE [m EXCEPT !.lists[m.loc[l].id] = Append(@, m.sym_array[j])]

(* l[0] = src *)
SetFirstIf(on, m, l, src) ==
    IF m.err # "" \/ ~on THEN m
    ELSE [m EXCEPT !.lists[m.loc[l].id][1] = m.loc[src]]

(* dst = _as_list(src) *)
AsList(m, dst, src) ==
    IF m.err # "" THEN m
    ELSE IF m.loc[src].k = "list" THEN Move(m, dst, src)
    ELSE NewList(m, dst, <<R(src)>>)

(* What a rule hands back as out_name: None, a str, a dict of slots. *)
NoNames == [k |-> "none", s |-> NoName, d |-> <<>>]

(* out_name = None, out_name = {} *)
ResetOutName(m, kind) ==
    IF m.err # "" THEN m ELSE [m EXCEPT !.out_name = [NoNames EXCEPT !.k = kind]]

(* out_name[slot] = name of src *)
SetOutNameIf(on, m, slot, src) ==
    IF m.err # "" \/ ~on THEN m
    ELSE [m EXCEPT !.out_name.d = (slot :> OutName(m, m.loc[src])) @@ @]

(* out_name = name of src *)
SetOutNameStr(m, src) ==
    IF m.err # "" THEN m
    ELSE [m EXCEPT !.out_name = [NoNames EXCEPT !.k = "str",
                                                !.s = OutName(m, m.loc[src])]]

----------------------------------------------------------------------------
(* The conversion rules.  A rule finds its inputs in the local "inputs"    *)
(* and leaves the symbol it returns in the local "ret".                    *)

(* dst, _ = _darknet_activations(src, attrs) *)
Activations(m, dst, src, attrs) ==
    IF m.err # "" THEN m
    ELSE IF "activation" \notin DOMAIN attrs THEN Raise(m, "OpAttributeRequired")
    ELSE IF attrs["activation"].v = LINEAR THEN Move(m, dst, src)
    ELSE IF attrs["activation"].v = RELU
    THEN NnvmOp(m, dst, "relu", <<Star(src)>>, <<>>)
    ELSE IF attrs["activation"].v = TANH
    THEN NnvmOp(m, dst, "tanh", <<Star(src)>>, <<>>)
    ELSE IF attrs["activation"].v = LOGISTIC
    THEN NnvmOp(m, dst, "sigmoid", <<Star(src)>>, <<>>)
    ELSE IF attrs["activation"].v = LEAKY
    THEN NnvmOp(m, dst, "leaky_relu", <<Star(src)>>,
                [alpha |-> Get(attrs, "slope", Fl(1))])
    ELSE IF attrs["activation"].v = ELU
    THEN LET m1 == NnvmOp(m, "elu_exp", "exp", <<Star(src)>>, <<>>)
             m2 == NnvmOp(m1, "elu_sub", "__rsub_scalar__", <<R("elu_exp")>>,
                          [scalar |-> 1])
             m3 == NnvmOp(m2, "elu_neg", "relu", <<R("elu_sub")>>, <<>>)
             m4 == NnvmOp(m3, "elu_neg", "__mul_scalar__", <<R("elu_neg")>>,
                          [scalar |-> -1])
             m5 == NnvmOp(m4, "elu_pos", "relu", <<Star(src)>>, <<>>)
         IN  NnvmOp(m5, dst, "__add_symbol__", <<R("elu_neg"), R("elu_pos")>>,
                    <<>>)
    ELSE Raise(m, "OpNotImplemented")

ActivationsIf(on, m, dst, src, attrs) ==
    IF on THEN Activations(m, dst, src, attrs) ELSE m

(* parse_tshape(str(size)) *)
ParseTshape(a) == IF a.t = "tuple" THEN a.v ELSE <<a.v>>

DarknetMaxpooling(m, attrs) ==
    IF "kernel" \notin DOMAIN attrs THEN Raise(m, "OpAttributeRequired")
    ELSE IF Len(ParseTshape(attrs["kernel"])) # 1 THEN Raise(m, "AttributeError")
    ELSE LET kernel == ParseTshape(attrs["kernel"])
             strides == PyInt(Get(attrs, "stride", I(1)))
             pads == PyInt(Get(attrs, "pad", I(0)))
             extra_pad_size == Get(attrs, "extra_pad_size", I(0)).v
             m1 == NnvmOpIf(extra_pad_size # 0, m, "inputs", "pad",
                            <<Star("inputs")>>,
                            [pad_width |-> <<<<0, 0>>, <<0, 0>>,
                                             <<0, extra_pad_size>>,
                                             <<0, extra_pad_size>>>>,
                             pad_value |-> "float32.min"])
         IN  NnvmOp(m1, "ret", "max_pool2d", <<Star("inputs")>>,
                    [pool_size |-> <<kernel[1], kernel[1]>>,
                     strides |-> <<strides, strides>>,
                     padding |-> <<pads, pads>>])

DarknetAvgpooling(m, attrs) ==
    IF "kernel" \notin DOMAIN attrs THEN Raise(m, "OpAttributeRequired")
    ELSE IF Len(ParseTshape(attrs["kernel"])) # 1
    THEN Raise(m, "OpAttributeUnimplemented")
    ELSE LET kernel == ParseTshape(attrs["kernel"])
             strides == PyInt(Get(attrs, "stride", I(1)))
             pads == PyInt(Get(attrs, "pad", I(0)))
         IN  NnvmOp(m, "ret", "avg_pool2d", <<Star("inputs")>>,
                    [pool_size |-> <<kernel[1], kernel[1]>>,
                     strides |-> <<strides, strides>>,
                     padding |-> <<pads, pads>>])

DarknetBatchNorm(m, attrs) ==
    NnvmOp(m, "ret", "darknet_batch_norm", <<Star("inputs")>>,
           [axis |-> Get(attrs, "axis", I(1)), center |-> TRUE, scale |-> TRUE])

DarknetConv2d(m, attrs) ==
    IF "kernel" \notin DOMAIN attrs THEN Raise(m, "OpAttributeRequired")
    ELSE IF Len(ParseTshape(attrs["kernel"])) # 1
    THEN Raise(m, "OpAttributeUnimplemented")
    ELSE IF Get(attrs, "layout", S("NCHW")).v \notin {"NCHW", "NHWC"}
    THEN Raise(m, "OpAttributeInvalid")
    ELSE IF "num_filter" \notin DOMAIN attrs THEN Raise(m, "OpAttributeRequired")
    ELSE LET kernel == ParseTshape(attrs["kernel"])
             strides == PyInt(Get(attrs, "stride", I(1)))
             pads == PyInt(Get(attrs, "pad", I(0)))
             bn == Get(attrs, "use_batchNorm", B(FALSE)) = B(TRUE)
             m1 == ResetOutName(m, "dict")
             m2 == NnvmOp(m1, "ret", "conv2d", <<Star("inputs")>>,
                          [channels |-> attrs["num_filter"],
                           kernel_size |-> <<kernel[1], kernel[1]>>,
                           strides |-> <<strides, strides>>,
                           padding |-> <<pads, pads>>,
                           groups |-> Get(attrs, "num_group", I(1)),
                           use_bias |-> ~bn])
             m3 == SetOutNameIf(TRUE, m2, 0, "ret")
             m4 == NnvmOpIf(bn, m3, "ret", "batch_norm", <<Star("ret")>>, <<>>)
             m5 == SetOutNameIf(bn, m4, 1, "ret")
         IN  ActivationsIf("activation" \in DOMAIN attrs, m5, "ret", "ret",
                           [activation |-> Get(attrs, "activation", I(LINEAR)),
                            slope |-> Fl(1)])

DarknetConv2dTransposeLateCheck(m, attrs) ==
    IF "kernel" \notin DOMAIN attrs THEN Raise(m, "OpAttributeRequired")
    ELSE IF Len(ParseTshape(attrs["kernel"])) # 2
    THEN Raise(m, "OpAttributeUnimplemented")
    ELSE IF Get(attrs, "layout", S("NCHW")).v \notin {"NCHW", "NHWC"}
    THEN Raise(m, "OpAttributeInvalid")
    ELSE IF "num_filter" \notin DOMAIN attrs THEN Raise(m, "OpAttributeRequired")
    ELSE RaiseIf("target_shape" \in DOMAIN attrs,
                 NnvmOp(m, "ret", "conv2d_transpose", <<Star("inputs")>>,
                        [channels |-> attrs["num_filter"],
                         kernel_size |-> ParseTshape(attrs["kernel"])]),
                 "OpAttributeUnimplemented")

DarknetConv2dTranspose(m, attrs) ==
    IF "target_shape" \in DOMAIN attrs THEN Raise(m, "OpAttributeUnimplemented")
    ELSE IF "kernel" \notin DOMAIN attrs THEN Raise(m, "OpAttributeRequired")
    ELSE IF Len(ParseTshape(attrs["kernel"])) # 2
    THEN Raise(m, "OpAttributeUnimplemented")
    ELSE IF Get(attrs, "layout", S("NCHW")).v \notin {"NCHW", "NHWC"}
    THEN Raise(m, "OpAttributeInvalid")
    ELSE IF "num_filter" \notin DOMAIN attrs THEN Raise(m, "OpAttributeRequired")
    ELSE NnvmOp(m, "ret", "conv2d_transpose", <<Star("inputs")>>,
                [channels |-> attrs["num_filter"],
                 kernel_size |-> ParseTshape(attrs["kernel"]),
                 strides |-> Get(attrs, "stride", Tup(<<1, 1>>)),
                 output_padding |-> Get(attrs, "adj", Tup(<<0, 0>>)),
                 padding |-> Get(attrs, "pad", Tup(<<0, 0>>)),
                 dilation |-> Get(attrs, "dilate", Tup(<<1, 1>>)),
                 groups |-> Get(attrs, "num_group", I(1)),
                 layout |-> Get(attrs, "layout", S("NCHW")),
                 use_bias |-> "no_bias" \notin DOMAIN attrs])

DarknetShortcutNoPad(m, attrs) ==
    LET input_0_channel == PyInt(attrs["out_channel"])
        input_1_channel == PyInt(attrs["add_out_channel"])
        input_0_size == PyInt(attrs["out_size"])
        input_1_size == PyInt(attrs["add_out_size"])
        m1 == LoadAt(m, "input_0", "inputs", 0)
        m2 == LoadAt(m1, "input_1", "inputs", 1)
        m3 == RaiseIf(\/ input_0_size > input_1_size /\ input_1_size = 0
                      \/ input_0_size < input_1_size /\ input_0_size = 0,
                      m2, "ZeroDivisionError")
        m4 == NnvmOpNamedIf(input_0_size > input_1_size, m3, "input_1",
                            "upsampling", "_upsampling", <<R("input_1")>>,
                            [scale |-> input_0_size \div input_1_size])
        m5 == NnvmOpNamedIf(input_0_size < input_1_size, m4, "input_1",
                            "avg_pool2d", "_downsampling", <<R("input_1")>>,
                            [pool_size |-> <<1, 1>>,
                             strides |-> <<input_1_size \div input_0_size,
                                           input_1_size \div input_0_size>>,
                             padding |-> <<0, 0>>])
        m6 == NnvmOpIf(FALSE, m5, "input_1", "pad",
                       <<R("input_1")>>,
                       [pad_width |-> <<<<0, 0>>,
                                        <<0, input_0_channel - input_1_channel>>,
                                        <<0, 0>>, <<0, 0>>>>,
                        pad_value |-> "0."])
        m7 == NewList(m6, "new_inputs", <<R("input_0"), R("input_1")>>)
        m8 == NnvmOp(m7, "ret", "elemwise_add", <<Star("new_inputs")>>, <<>>)
        m9 == SetOutNameStr(m8, "ret")
    IN  ActivationsIf("activation" \in DOMAIN attrs, m9, "ret", "ret",
                      [activation |-> Get(attrs, "activation", I(LINEAR))])

DarknetShortcut(m, attrs) ==
    LET input_0_channel == PyInt(attrs["out_channel"])
        input_1_channel == PyInt(attrs["add_out_channel"])
        input_0_size == PyInt(attrs["out_size"])
        input_1_size == PyInt(attrs["add_out_size"])
        m1 == LoadAt(m, "input_0", "inputs", 0)
        m2 == LoadAt(m1, "input_1", "inputs", 1)
        m3 == RaiseIf(\/ input_0_size > input_1_size /\ input_1_size = 0
                      \/ input_0_size < input_1_size /\ input_0_size = 0,
                      m2, "ZeroDivisionError")
        m4 == NnvmOpNamedIf(input_0_size > input_1_size, m3, "input_1",
                            "upsampling", "_upsampling", <<R("input_1")>>,
                            [scale |-> input_0_size \div input_1_size])
        m5 == NnvmOpNamedIf(input_0_size < input_1_size, m4, "input_1",
                            "avg_pool2d", "_downsampling", <<R("input_1")>>,
                            [pool_size |-> <<1, 1>>,
                             strides |-> <<input_1_size \div input_0_size,
                                           input_1_size \div input_0_size>>,
                             padding |-> <<0, 0>>])
        m6 == NnvmOpIf(input_0_channel # input_1_channel, m5, "input_1", "pad",
                       <<R("input_1")>>,
                       [pad_width |-> <<<<0, 0>>,
                                        <<0, input_0_channel - input_1_channel>>,
                                        <<0, 0>>, <<0, 0>>>>,
                        pad_value |-> "0."])
        m7 == NewList(m6, "new_inputs", <<R("input_0"), R("input_1")>>)
        m8 == NnvmOp(m7, "ret", "elemwise_add", <<Star("new_inputs")>>, <<>>)
        m9 == SetOutNameStr(m8, "ret")
    IN  ActivationsIf("activation" \in DOMAIN attrs, m9, "ret", "ret",
                      [activation |-> Get(attrs, "activation", I(LINEAR))])

DarknetDense(m, attrs) ==
    IF "num_hidden" \notin DOMAIN attrs THEN Raise(m, "OpAttributeRequired")
    ELSE LET use_flatten == Get(attrs, "use_flatten", B(FALSE)) = B(TRUE)
             bn == "use_batchNorm" \in DOMAIN attrs
             m1 == ResetOutName(m, "dict")
             m2 == NnvmOpIf(use_flatten, m1, "flat", "flatten",
                            <<At("inputs", 0)>>, <<>>)
             m3 == SetFirstIf(use_flatten, m2, "inputs", "flat")
             m4 == NnvmOp(m3, "ret", "dense", <<Star("inputs")>>,
                          [units |-> attrs["num_hidden"],
                           use_bias |-> Get(attrs, "use_bias", B(FALSE))])
             m5 == SetOutNameIf(TRUE, m4, 0, "ret")
             m6 == NnvmOpIf(bn, m5, "ret", "batch_norm", <<Star("ret")>>, <<>>)
             m7 == SetOutNameIf(bn, m6, 1, "ret")
         IN  ActivationsIf("activation" \in DOMAIN attrs, m7, "ret", "ret",
                           [activation |-> Get(attrs, "activation", I(LINEAR))])

DarknetDropout(m, attrs) ==
    NnvmOp(m, "ret", "dropout", <<Star("inputs")>>,
           [rate |-> Get(attrs, "p", Fl(5))])

DarknetUpsampling(m, attrs) ==
    NnvmOp(m, "ret", "upsampling", <<Star("inputs")>>,
           [scale |-> Get(attrs, "scale", I(1))])

DarknetL2normalize(m, attrs) ==
    NnvmOp(m, "ret", "l2_normalize", <<Star("inputs")>>,
           [eps |-> Get(attrs, "eps", I(0)), axis |-> Get(attrs, "axis", I(1))])

DarknetSoftmaxOutput(m, attrs) ==
    LET temperature == Get(attrs, "temperature", I(1))
        use_flatten == Get(attrs, "use_flatten", B(FALSE)) = B(TRUE)
        m1 == NnvmOpIf(PyNe(temperature, I(1)), m, "scaled", "__div_scalar__",
                       <<At("inputs", 0)>>, [scalar |-> Fl(10 * PyInt(temperature))])
        m2 == SetFirstIf(PyNe(temperature, I(1)), m1, "inputs", "scaled")
        m3 == NnvmOpIf(use_flatten, m2, "flat", "flatten", <<At("inputs", 0)>>,
                       <<>>)
        m4 == SetFirstIf(use_flatten, m3, "inputs", "flat")
    IN  NnvmOp(m4, "ret", "softmax", <<Star("inputs")>>,
               IF "multi_output" \in DOMAIN attrs THEN [axis |-> 1] ELSE <<>>)

DarknetRoute(m, attrs) ==
    NnvmOp(m, "ret", "concatenate", <<Star("inputs")>>,
           [axis |-> Get(attrs, "dim", I(1))])

DarknetReorg(m, attrs) ==
    NnvmOp(m, "ret", "yolo_reorg", <<Star("inputs")>>,
           IF "stride" \in DOMAIN attrs THEN [stride |-> attrs["stride"]]
           ELSE <<>>)

DarknetRegion(m, attrs) ==
    LET num == Get(attrs, "n", I(1)).v
        classes == Get(attrs, "classes", I(1)).v
        coords == Get(attrs, "coords", I(0)).v
        background == Get(attrs, "background", I(0)).v
        softmax == Get(attrs, "softmax", B(TRUE)).v
        input_shape == attrs["shape"].v
        split_size == classes + coords + 1
        intermediate_shape == <<input_shape[1], num, split_size,
                                input_shape[3], input_shape[4]>>
        m1 == NnvmOp(m, "data_block", "reshape", <<At("inputs", 0)>>,
                     [shape |-> intermediate_shape])
        m2 == NnvmOp(m1, "split_res", "split", <<R("data_block")>>,
                     [indices_or_sections |-> <<2, 4, 5>>, axis |-> 2])
        m3 == Pick(m2, "split_res0", "split_res", 0)
        m4 == NnvmOp(m3, "split_res0", "sigmoid", <<R("split_res0")>>, <<>>)
        m5 == Pick(m4, "split_res2", "split_res", 2)
        m6 == NnvmOpIf(background = 0, m5, "split_res2", "sigmoid",
                       <<R("split_res2")>>, <<>>)
        m7 == NnvmOpNamedIf(softmax # 0, m6, "split_res3", "__getitem__", "",
                            <<R("split_res")>>, [index |-> 3])
        m8 == NnvmOpIf(softmax # 0, m7, "split_res3", "softmax",
                       <<R("split_res3")>>, [axis |-> 2])
        m9 == Pick(m8, "split_res1", "split_res", 1)
        m10 == RaiseIf(softmax = 0, m9, "UnboundLocalError")
        m11 == NnvmOp(m10, "out", "concatenate",
                      <<R("split_res0"), R("split_res1"), R("split_res2"),
                        R("split_res3")>>, [axis |-> 2])
    IN  NnvmOp(m11, "ret", "reshape", <<R("out")>>, [shape |-> input_shape])

DarknetYolo(m, attrs) ==
    LET num == Get(attrs, "n", I(1)).v
        classes == Get(attrs, "classes", I(1)).v
        input_shape == attrs["shape"].v
        split_size == classes + 5
        intermediate_shape == <<input_shape[1], num, split_size,
                                input_shape[3], input_shape[4]>>
        m1 == NnvmOp(m, "data_block", "reshape", <<At("inputs", 0)>>,
                     [shape |-> intermediate_shape])
        m2 == NnvmOp(m1, "split_res", "split", <<R("data_block")>>,
                     [indices_or_sections |-> <<2, 4>>, axis |-> 2])
        m3 == Pick(m2, "split_res0", "split_res", 0)
        m4 == NnvmOp(m3, "split_res0", "sigmoid", <<R("split_res0")>>, <<>>)
        m5 == Pick(m4, "split_res2", "split_res", 2)
        m6 == NnvmOp(m5, "split_res2", "sigmoid", <<R("split_res2")>>, <<>>)
        m7 == Pick(m6, "split_res1", "split_res", 1)
        m8 == NnvmOp(m7, "out", "concatenate",
                     <<R("split_res0"), R("split_res1"), R("split_res2")>>,
                     [axis |-> 2])
    IN  NnvmOp(m8, "ret", "reshape", <<R("out")>>, [shape |-> input_shape])

DarknetOpNotSupport(m, attrs) == Raise(m, "NotImplementedError")

(* _DARKNET_CONVERT_MAP[op_name](inputs, attrs) *)
DarknetConvertMap(op_name, m, attrs) ==
    CASE op_name = CONVOLUTIONAL -> DarknetConv2d(m, attrs)
      [] op_name = DECONVOLUTIONAL -> DarknetConv2dTranspose(m, attrs)
      [] op_name = CONNECTED -> DarknetDense(m, attrs)
      [] op_name = MAXPOOL -> DarknetMaxpooling(m, attrs)
      [] op_name = SOFTMAX -> DarknetSoftmaxOutput(m, attrs)
      [] op_name = DROPOUT -> DarknetDropout(m, attrs)
      [] op_name = AVGPOOL -> DarknetAvgpooling(m, attrs)
      [] op_name = BATCHNORM -> DarknetBatchNorm(m, attrs)
      [] op_name = ROUTE -> DarknetRoute(m, attrs)
      [] op_name = REORG -> DarknetReorg(m, attrs)
      [] op_name = REGION -> DarknetRegion(m, attrs)
      [] op_name = SHORTCUT -> DarknetShortcut(m, attrs)
      [] op_name = UPSAMPLE -> DarknetUpsampling(m, attrs)
      [] op_name = L2NORM -> DarknetL2normalize(m, attrs)
      [] op_name = YOLO -> DarknetYolo(m, attrs)
      [] op_name \in {DETECTION, CROP, COST, NORMALIZATION, LOCAL_, ACTIVE, RNN,
                      GRU, LSTM, CRNN, NETWORK, XNOR, BLANK}
           -> DarknetOpNotSupport(m, attrs)
      [] OTHER -> Raise(m, "OpNotImplemented")

(* if out_name is None: out_name = the name of sym *)
DefaultOutName(m) ==
    IF m.err = "" /\ m.out_name.k = "none" THEN SetOutNameStr(m, "ret") ELSE m

(* out_name, ret = _darknet_convert_symbol(op_name, inputs, attrs) *)
DarknetConvertSymbol(op_name, m, attrs) ==
    DefaultOutName(DarknetConvertMap(op_name, ResetOutName(m, "none"), attrs))

----------------------------------------------------------------------------

----------------------------------------------------------------------------
(* Python floats.  _get_darknet_attrs computes the max-pool correction in  *)
(* floats: (w - size + 2 * pad) / float(stride) + 1, the difference to     *)
(* out_w, its product with the stride, and int() of that.  A float is a    *)
(* sign and a magnitude in binary, IntBits bits before the point and       *)
(* FracBits after it, most significant first; every operation rounds its   *)
(* exact result to Mantissa significant bits, ties to even.                *)

Mantissa == 53

IntBits == 10

FracBits == 64

Width == IntBits + FracBits

RECURSIVE Pow2(_)
Pow2(k) == IF k = 0 THEN 1 ELSE 2 * Pow2(k - 1)

(* A magnitude written out as a sequence of Width bits. *)
Magnitude(f) == SubSeq(f, 1, Width)

(* The IntBits bits of a natural number, then FracBits zeros. *)
NatBits(n) ==
    Magnitude([j \in 1..Width |->
                  IF j <= IntBits THEN (n \div Pow2(IntBits - j)) % 2 ELSE 0])

(* 2^k modulo s *)
RECURSIVE PowMod(_, _)
PowMod(k, s) ==
    IF k = 0 THEN 1 % s
    ELSE LET h == PowMod(k \div 2, s)
         IN  IF k % 2 = 0 THEN (h * h) % s ELSE (2 * h * h) % s

(* The first k bits of r / s after the point, r < s, and what is left of  *)
(* r: after j bits, r * 2^j modulo s is left.                              *)
FracDigits(r, s, k) ==
    LET FracRem(j) == (r * PowMod(j, s)) % s
    IN  [bits |-> SubSeq([j \in 1..k |-> (2 * FracRem(j - 1)) \div s], 1, k),
         rem |-> FracRem(k)]

(* The carry of a + b into bit j: some bit after j makes one and every    *)
(* bit between passes it on.                                               *)
Carry(a, b, j) ==
    IF \E i \in (j + 1)..Width :
           a[i] + b[i] = 2 /\ \A k \in (j + 1)..(i - 1) : a[k] + b[k] = 1
    THEN 1 ELSE 0

AddBits(a, b) ==
    Magnitude([j \in 1..Width |-> (a[j] + b[j] + Carry(a, b, j)) % 2])

(* The borrow of a - b from bit j, b not above a. *)
Borrow(a, b, j) ==
    IF \E i \in (j + 1)..Width :
           a[i] < b[i] /\ \A k \in (j + 1)..(i - 1) : a[k] = b[k]
    THEN 1 ELSE 0

SubBits(a, b) ==
    Magnitude([j \in 1..Width |-> (a[j] - b[j] - Borrow(a, b, j) + 2) % 2])

LessBits(a, b) ==
    \E j \in 1..Width : a[j] < b[j] /\ \A i \in 1..(j - 1) : a[i] = b[i]

(* Round a magnitude to Mantissa significant bits, ties to even; sticky    *)
(* tells that the exact value has bits beyond the last one kept here.      *)
RoundBits(bits, sticky) ==
    IF \A j \in 1..Width : bits[j] = 0 THEN bits
    ELSE LET lead == CHOOSE j \in 1..Width :
                         bits[j] = 1 /\ \A i \in 1..(j - 1) : bits[i] = 0
             last == lead + Mantissa - 1
         IN  IF last >= Width THEN bits
             ELSE LET kept == Magnitude([j \in 1..Width |->
                                           IF j <= last THEN bits[j] ELSE 0])
                      unit == Magnitude([j \in 1..Width |->
                                           IF j = last THEN 1 ELSE 0])
                      more == sticky \/ \E j \in (last + 2)..Width : bits[j] = 1
                  IN  IF bits[last + 1] = 1 /\ (more \/ bits[last] = 1)
                      THEN AddBits(kept, unit)
                      ELSE kept

(* float(n) of an int n. *)
FloatOf(n) == [neg |-> n < 0, bits |-> NatBits(IF n < 0 THEN -n ELSE n)]

(* n / float(s), s > 0 *)
FloatDiv(n, s) ==
    LET a == IF n < 0 THEN -n ELSE n
        frac == FracDigits(a % s, s, FracBits)
        whole == NatBits(a \div s)
    IN  [neg |-> n < 0,
         bits |-> RoundBits(SubSeq(whole, 1, IntBits) \o frac.bits, frac.rem # 0)]

FloatNeg(x) == [x EXCEPT !.neg = ~@]

(* x + y *)
FloatAdd(x, y) ==
    IF x.neg = y.neg
    THEN [neg |-> x.neg, bits |-> RoundBits(AddBits(x.bits, y.bits), FALSE)]
    ELSE IF LessBits(x.bits, y.bits)
    THEN [neg |-> y.neg, bits |-> RoundBits(SubBits(y.bits, x.bits), FALSE)]
    ELSE [neg |-> x.neg /\ x.bits # y.bits,
          bits |-> RoundBits(SubBits(x.bits, y.bits), FALSE)]

(* The exact k-fold sum of a magnitude. *)
RECURSIVE TimesBits(_, _)
TimesBits(bits, k) ==
    IF k = 0 THEN NatBits(0)
    ELSE AddBits(TimesBits(bits, k - 1), bits)

(* x * s for an int s >= 0 *)
FloatTimes(x, s) == [neg |-> x.neg, bits |-> RoundBits(TimesBits(x.bits, s), FALSE)]

(* x < y *)
FloatLess(x, y) ==
    IF x.neg # y.neg THEN x.neg /\ (x.bits # NatBits(0) \/ y.bits # NatBits(0))
    ELSE IF x.neg THEN LessBits(y.bits, x.bits) ELSE LessBits(x.bits, y.bits)

(* int(x): the part before the point, towards zero. *)
RECURSIVE WholeOf(_, _)
WholeOf(bits, j) ==
    IF j = 0 THEN 0 ELSE 2 * WholeOf(bits, j - 1) + bits[j]

IntOf(x) == IF x.neg THEN -WholeOf(x.bits, IntBits) ELSE WholeOf(x.bits, IntBits)
(* class GraphProto: parameter extraction. *)

RECURSIVE Prod(_)
Prod(shape) == IF shape = <<>> THEN 1 ELSE Head(shape) * Prod(Tail(shape))

(* The index tuples of an array of the given shape. *)
Indices(shape) ==
    IF Len(shape) = 1 THEN {<<a>> : a \in 0..(shape[1] - 1)}
    ELSE IF Len(shape) = 2
    THEN {<<a, b>> : a \in 0..(shape[1] - 1), b \in 0..(shape[2] - 1)}
    ELSE {<<a, b, y, x>> : a \in 0..(shape[1] - 1), b \in 0..(shape[2] - 1),
                           y \in 0..(shape[3] - 1), x \in 0..(shape[4] - 1)}

(* The flat position numpy's reshape gives an index tuple (C order). *)
RECURSIVE FlatIndex(_, _, _)
FlatIndex(ix, shape, acc) ==
    IF ix = <<>> THEN acc
    ELSE FlatIndex(Tail(ix), Tail(shape), acc * Head(shape) + Head(ix))

ReadMemoryBuffer(shape, data) ==
    LET length == Prod(shape)
        data_np == [i \in 0..(length - 1) |-> data[i + 1]]
    IN  [shape |-> shape,
         at |-> [ix \in Indices(shape) |-> data_np[FlatIndex(ix, shape, 0)]]]

(* np.array([...], dtype=np.int32) *)
NpArray(values) == ReadMemoryBuffer(<<Len(values)>>, values)

GetTvmParamsName(opname, arg_name) == [opname EXCEPT !.role = arg_name]

(* self._tvmparams[k] = v *)
SetParam(m, key, v) ==
    IF m.err # "" THEN m
    ELSE [m EXCEPT !.tvmparams =
              [x \in DOMAIN @ \cup {key} |-> IF x = key THEN v ELSE @[x]],
                   !.paramlog = Append(@, key)]

GetBatchnormWeights(m, layer, opname, size) ==
    LET scales == ReadMemoryBuffer(<<size>>, layer.scales)
        rolling_mean == ReadMemoryBuffer(<<size>>, layer.rolling_mean)
        rolling_variance == ReadMemoryBuffer(<<size>>, layer.rolling_variance)
        m1 == SetParam(m, GetTvmParamsName(opname, "moving_mean"), rolling_mean)
        m2 == SetParam(m1, GetTvmParamsName(opname, "moving_var"), rolling_variance)
    IN  SetParam(m2, GetTvmParamsName(opname, "gamma"), scales)

(* Whether the layer's bias buffer is the beta of a chained batch norm. *)
ScalesLoaded(layer) == layer.batch_normalize = 1 /\ layer.dontloadscales # 1

(* The size check of _get_convolution_weights, asking only for a buffer    *)
(* that is long enough.                                                    *)
ConvSizeAtLeast(layer) ==
    layer.n * layer.c * layer.size * layer.size <= layer.nweights

(* The size check of _get_convolution_weights. *)
ConvSizeOk(layer) == layer.n * layer.c * layer.size * layer.size = layer.nweights

GetConvolutionWeights(m, layer, opname) ==
    IF m.err # "" THEN m
    ELSE IF layer.nweights = 0 THEN m
    ELSE IF ~ConvSizeOk(layer) THEN Raise(m, "OpAttributeInvalid")
    ELSE LET shape == <<layer.n, layer.c, layer.size, layer.size>>
             weights == ReadMemoryBuffer(shape, layer.weights)
             biases == ReadMemoryBuffer(<<layer.n>>, layer.biases)
             m1 == SetParam(m, GetTvmParamsName(opname.d[0], "weight"), weights)
         IN  IF ScalesLoaded(layer)
             THEN IF 1 \notin DOMAIN opname.d THEN Raise(m1, "KeyError")
                  ELSE SetParam(GetBatchnormWeights(m1, layer, opname.d[1], layer.n),
                                GetTvmParamsName(opname.d[1], "beta"), biases)
             ELSE SetParam(m1, GetTvmParamsName(opname.d[0], "bias"), biases)

GetConnectedWeights(m, layer, opname) ==
    IF m.err # "" THEN m
    ELSE IF layer.outputs * layer.inputs = 0 THEN m
    ELSE LET weights == ReadMemoryBuffer(<<layer.outputs, layer.inputs>>,
                                         layer.weights)
             biases == ReadMemoryBuffer(<<layer.outputs>>, layer.biases)
             m1 == SetParam(m, GetTvmParamsName(opname.d[0], "weight"), weights)
         IN  IF ScalesLoaded(layer)
             THEN IF 1 \notin DOMAIN opname.d THEN Raise(m1, "KeyError")
                  ELSE SetParam(GetBatchnormWeights(m1, layer, opname.d[1],
                                                    layer.outputs),
                                GetTvmParamsName(opname.d[1], "beta"), biases)
             ELSE SetParam(m1, GetTvmParamsName(opname.d[0], "bias"), biases)

GetRegionWeights(m, layer, opname) ==
    LET biases == ReadMemoryBuffer(<<layer.n * 2>>, layer.biases)
        attributes == NpArray(<<layer.n, layer.out_c, layer.out_h, layer.out_w,
                                layer.classes, layer.coords, layer.background>>)
        m1 == SetParam(m, GetTvmParamsName(opname.s, "bias"), biases)
    IN  SetParam(m1, GetTvmParamsName(opname.s, "attr"), attributes)

GetYoloWeights(m, layer, opname) ==
    LET biases == ReadMemoryBuffer(<<layer.total * 2>>, layer.biases)
        mask == ReadMemoryBuffer(<<layer.n>>, layer.mask)
        attributes == NpArray(<<layer.n, layer.out_c, layer.out_h, layer.out_w,
                                layer.classes, layer.total>>)
        m1 == SetParam(m, GetTvmParamsName(opname.s, "bias"), biases)
        m2 == SetParam(m1, GetTvmParamsName(opname.s, "mask"), mask)
    IN  SetParam(m2, GetTvmParamsName(opname.s, "attr"), attributes)

GetDarknetParams(m, layer, opname) ==
    IF m.err # "" THEN m
    ELSE IF layer.type = CONVOLUTIONAL THEN GetConvolutionWeights(m, layer, opname)
    ELSE IF layer.type = CONNECTED THEN GetConnectedWeights(m, layer, opname)
    ELSE IF layer.type = REGION THEN GetRegionWeights(m, layer, opname)
    ELSE IF layer.type = YOLO THEN GetYoloWeights(m, layer, opname)
    ELSE m

----------------------------------------------------------------------------
(* class GraphProto: attribute derivation. *)

(* The condition of _get_darknet_attrs without its dontloadscales half. *)
UseBatchNormAnyScales(layer) == layer.batch_normalize = 1

(* The condition under which _get_darknet_attrs asks for a batch norm. *)
UseBatchNorm(layer) == layer.batch_normalize = 1 /\ layer.dontloadscales # 1

(* max_output = (layer.w - layer.size + 2 * layer.pad)/float(layer.stride) + 1 *)
MaxOutput(layer) ==
    FloatAdd(FloatDiv(layer.w - layer.size + 2 * layer.pad, layer.stride),
             FloatOf(1))

(* int(extra_pad), extra_pad = (layer.out_w - max_output)*layer.stride, in *)
(* exact arithmetic.                                                       *)
ExtraPad(layer) ==
    IntOf(FloatTimes(FloatAdd(FloatOf(layer.out_w), FloatNeg(MaxOutput(layer))),
                     layer.stride))

(* _get_darknet_attrs: [err, attr] *)
GetDarknetAttrs(layers, layer, layer_num) ==
    LET ok(a) == [err |-> "", attr |-> a]
        bnattrs == IF UseBatchNorm(layer)
                   THEN [use_batchNorm |-> B(TRUE), use_scales |-> B(TRUE)]
                   ELSE <<>>
    IN
    CASE layer.type = CONVOLUTIONAL ->
           ok(bnattrs @@
              [layout |-> [t |-> "str", v |-> "NCHW"], pad |-> S(layer.pad),
               num_group |-> S(layer.groups), num_filter |-> S(layer.n),
               stride |-> S(layer.stride), kernel |-> S(layer.size),
               activation |-> I(layer.activation),
               use_bias |-> B(layer.nbiases # 0)])
      [] layer.type = CONNECTED ->
           LET use_flatten ==
                   ~(/\ layer_num # 0
                     /\ layers[layer_num - 1].out_h = layer.h
                     /\ layers[layer_num - 1].out_w = layer.w
                     /\ layers[layer_num - 1].out_c = layer.c)
           IN  ok(bnattrs @@
                  [num_hidden |-> S(layer.outputs),
                   activation |-> I(layer.activation),
                   use_flatten |-> B(use_flatten),
                   use_bias |-> B(~UseBatchNorm(layer))])
      [] layer.type = MAXPOOL ->
           IF layer.stride = 0 THEN [err |-> "ZeroDivisionError", attr |-> <<>>]
           ELSE ok((IF FloatLess(MaxOutput(layer), FloatOf(layer.out_w))
                    THEN [extra_pad_size |-> I(ExtraPad(layer))]
                    ELSE <<>>) @@
                   [pad |-> S(layer.pad), stride |-> S(layer.stride),
                    kernel |-> S(layer.size)])
      [] layer.type = AVGPOOL ->
           ok([pad |-> S(layer.pad),
               stride |-> IF layer.stride = 0 THEN S(1) ELSE S(layer.stride),
               kernel |-> IF layer.size = 0 /\ layer.h = layer.w
                          THEN S(layer.h) ELSE S(layer.size)])
      [] layer.type = DROPOUT -> ok([p |-> S(layer.probability)])
      [] layer.type = SOFTMAX ->
           ok((IF layer.temperature # 0
               THEN [temperature |-> S(layer.temperature)] ELSE <<>>) @@
              [axis |-> I(1), use_flatten |-> B(TRUE)])
      [] layer.type = SHORTCUT ->
           ok([activation |-> I(layer.activation),
               out_channel |-> I(layer.out_c), out_size |-> I(layer.out_h),
               add_out_channel |-> I(layers[layer.index].out_c),
               add_out_size |-> I(layers[layer.index].out_h)])
      [] layer.type \in {ROUTE, COST, L2NORM} -> ok(<<>>)
      [] layer.type = REORG -> ok([stride |-> I(layer.stride)])
      [] layer.type = REGION ->
           ok([n |-> I(layer.n), classes |-> I(layer.classes),
               coords |-> I(layer.coords), background |-> I(layer.background),
               softmax |-> I(layer.softmax),
               shape |-> Tup(<<1, layer.c, layer.h, layer.w>>)])
      [] layer.type = YOLO ->
           ok([n |-> I(layer.n), classes |-> I(layer.classes),
               shape |-> Tup(<<1, layer.c, layer.h, layer.w>>)])
      [] layer.type = UPSAMPLE -> ok([scale |-> I(layer.stride)])
      [] OTHER -> [err |-> "OpNotImplemented", attr |-> <<>>]


----------------------------------------------------------------------------
(* class GraphProto: the traversal. *)

(* self._sym_array[i] = src *)
SetSym(m, i, src) ==
    IF m.err # "" THEN m
    ELSE [m EXCEPT !.sym_array =
              [x \in DOMAIN @ \cup {i} |-> IF x = i THEN m.loc[src] ELSE @[x]]]

SetSymIf(on, m, i, src) == IF on THEN SetSym(m, i, src) ELSE m

(* dst = self._sym_array[i] *)
LoadSym(m, dst, i) ==
    IF m.err # "" THEN m
    ELSE IF i \notin DOMAIN m.sym_array THEN Raise(m, "KeyError")
    ELSE Let(m, dst, m.sym_array[i])

(* self._outs.append(src), self._outs = self._outs + [src] *)
OutsAppend(m, src) ==
    IF m.err # "" THEN m
    ELSE [m EXCEPT !.outs = Append(@, m.loc[src]),
                   !.acclog = Append(@, [v |-> m.loc[src], by |-> "rnn"])]

(* self._outs.insert(0, src), inserting at the back instead *)
OutsInsertBack(m, src) ==
    IF m.err # "" THEN m
    ELSE [m EXCEPT !.outs = Append(@, m.loc[src]),
                   !.acclog = Append(@, [v |-> m.loc[src], by |-> "det"])]

(* self._outs.insert(0, src) *)
OutsInsert(m, src) ==
    IF m.err # "" THEN m
    ELSE [m EXCEPT !.outs = <<m.loc[src]>> \o @,
                   !.acclog = Append(@, [v |-> m.loc[src], by |-> "det"])]

OutsInsertIf(on, m, src) == IF on THEN OutsInsert(m, src) ELSE m

(* for j in range(layer.n): sym.append(self._sym_array[layer.input_layers[j]]) *)
RECURSIVE RouteInputs(_, _, _)
RouteInputs(m, layer, j) ==
    IF j >= layer.n \/ m.err # "" THEN m
    ELSE RouteInputs(ListAppendSym(m, "sym", layer.input_layers[j + 1]), layer,
                     j + 1)

(* skip_layer of _preproc_layer without the branch of the cost layer *)
skip_layer_but_cost(layer) ==
    \/ layer.type = ROUTE /\ layer.n = 1
    \/ layer.type = BLANK

(* skip_layer of _preproc_layer *)
skip_layer(layer) ==
    \/ layer.type = ROUTE /\ layer.n = 1
    \/ layer.type = COST
    \/ layer.type = BLANK

(* The first statement of _preproc_layer. *)
PreprocInput(m, layer_num) ==
    IF layer_num = 0
    THEN NewList(Variable(m, "data", Name("data", -1, "")), "sym", <<R("data")>>)
    ELSE LoadSym(m, "sym", layer_num - 1)

(* The branches of _preproc_layer on the layer type. *)
PreprocBranch(m, layer) ==
    IF layer.type = ROUTE THEN RouteInputs(NewList(m, "sym", <<>>), layer, 0)
    ELSE IF layer.type = SHORTCUT
    THEN NewList(LoadSym(m, "other", layer.index), "sym",
                 <<R("sym"), R("other")>>)
    ELSE m

(* _preproc_layer without the record it makes for a layer it skips *)
PreprocLayerNoRecord(m, layer, layer_num) ==
    Move(PreprocBranch(PreprocInput(m, layer_num), layer), "pre", "sym")

(* skip_layer, sym = self._preproc_layer(layer, layer_num); the local sym  *)
(* is kept in "pre" as well.                                               *)
PreprocLayer(m, layer, layer_num) ==
    Move(SetSymIf(skip_layer(layer),
                  PreprocBranch(PreprocInput(m, layer_num), layer),
                  layer_num, "sym"),
         "pre", "sym")

(* _new_rnn_state_sym with a counter the whole process shares: the number  *)
(* of state variables of the name made so far.                             *)
NewRnnStateSymShared(m, dst, name) ==
    IF m.err # "" THEN m
    ELSE LET made == Cardinality({j \in 1..Len(m.graph) :
                                     /\ m.graph[j].op = "Variable"
                                     /\ m.graph[j].name.hint = name
                                     /\ m.graph[j].name.role = "state"})
         IN  Variable([m EXCEPT !.state_ctr[name] = @ + 1,
                                !.statelog = Append(@, Name(name, made, "state"))],
                      dst, Name(name, made, "state"))

(* _new_rnn_state_sym *)
NewRnnStateSym(m, dst, name) ==
    IF m.err # "" THEN m
    ELSE Variable([m EXCEPT !.state_ctr[name] = @ + 1,
                            !.statelog = Append(@, Name(name, m.state_ctr[name],
                                                        "state"))],
                  dst, Name(name, m.state_ctr[name], "state"))

(* dst = self._get_rnn_state_buffer(layer, name) *)
GetRnnStateBuffer(m, dst, layer, name) == NewRnnStateSym(m, dst, name)

(* self._get_darknet_params(layer, op_name): the name of the layer type in *)
(* the place of the out_name the conversion returned.                      *)
ParamsOfOpName(m, layer) ==
    GetDarknetParams(m, layer,
                     [m.out_name EXCEPT
                          !.s = Name("layer", layer.type, ""),
                          !.d = [j \in DOMAIN @ |-> Name("layer", layer.type, "")]])

(* self._get_darknet_params(layer, layer_name), layer_name the out_name    *)
(* _darknet_convert_symbol returned.                                       *)
ParamsOf(m, layer) == GetDarknetParams(m, layer, m.out_name)

(* layer_name, ret = _darknet_convert_symbol(op_name, _as_list(src), attr) *)
ConvertFrom(m, src, layers, layer, layer_num) ==
    IF m.err # "" THEN m
    ELSE IF GetDarknetAttrs(layers, layer, layer_num).err # ""
    THEN Raise(m, GetDarknetAttrs(layers, layer, layer_num).err)
    ELSE DarknetConvertSymbol(layer.type, AsList(m, "inputs", src),
                              GetDarknetAttrs(layers, layer, layer_num).attr)

(* dst = self._get_darknet_rnn_attrs(layer, src) *)
GetDarknetRnnAttrs(m, layers, layer, dst, src) ==
    Move(ParamsOf(ConvertFrom(m, src, layers, layer, 0), layer), dst, "ret")

(* The loop bodies of _handle_darknet_rnn_layers are statement lists; a    *)
(* statement is one of the five forms below, on the locals it names.       *)

(* dst = self._get_darknet_rnn_attrs(layer, src) *)
Convert(dst, layer, src) == [f |-> "convert", dst |-> dst, layer |-> layer,
                             src |-> src]

(* new_inputs = _as_list([a, b]); dst = get_nnvm_op(op) of new_inputs *)
Op2(dst, op, a, b) == [f |-> "op", dst |-> dst, op |-> op, spec |-> <<R(a), R(b)>>,
                       attrs |-> <<>>]

(* dst = 1 - a *)
RSub1(dst, a) == [f |-> "op", dst |-> dst, op |-> "__rsub_scalar__",
                  spec |-> <<R(a)>>, attrs |-> [scalar |-> 1]]

(* dst, _ = _darknet_activations(_as_list(src), {'activation': act}) *)
Act(dst, src, act) == [f |-> "act", dst |-> dst, src |-> src, act |-> act]

(* self._outs.append(src) *)
OutsAdd(src) == [f |-> "append", src |-> src]

(* dst = src *)
Assign(dst, src) == [f |-> "move", dst |-> dst, src |-> src]

Exec(m, layers, st) ==
    CASE st.f = "convert" -> GetDarknetRnnAttrs(m, layers, st.layer, st.dst, st.src)
      [] st.f = "op" -> NnvmOp(m, st.dst, st.op, st.spec, st.attrs)
      [] st.f = "act" -> Activations(m, st.dst, st.src, [activation |-> I(st.act)])
      [] st.f = "append" -> OutsAppend(m, st.src)
      [] st.f = "move" -> Move(m, st.dst, st.src)

RECURSIVE Run(_, _, _)
Run(m, layers, body) ==
    IF body = <<>> \/ m.err # "" THEN m
    ELSE Run(Exec(m, layers, Head(body)), layers, Tail(body))

(* for _ in range(k): body *)
RECURSIVE Repeat(_, _, _, _)
Repeat(m, layers, body, k) ==
    IF k <= 0 \/ m.err # "" THEN m
    ELSE Repeat(Run(m, layers, body), layers, body, k - 1)

(* The loop body of the RNN and of the CRNN branch, keeping the output of   *)
(* the step where the code keeps its state.                                *)
RnnBodyKeepsOutput(layer) ==
    << Convert("sym", layer.sub.input_layer, "sym"),
       Convert("state", layer.sub.self_layer, "state"),
       Op2("state", "elemwise_add", "sym", "state"),
       Convert("sym", layer.sub.output_layer, "state"),
       OutsAdd("sym") >>

(* The loop body of the RNN and of the CRNN branch. *)
RnnBody(layer) ==
    << Convert("sym", layer.sub.input_layer, "sym"),
       Convert("state", layer.sub.self_layer, "state"),
       Op2("state", "elemwise_add", "sym", "state"),
       OutsAdd("state"),
       Convert("sym", layer.sub.output_layer, "state") >>

(* The loop body of the LSTM branch. *)
LstmBody(layer) ==
    << Convert("sym_wf", layer.sub.wf, "h_state"),
       Convert("sym_wi", layer.sub.wi, "h_state"),
       Convert("sym_wg", layer.sub.wg, "h_state"),
       Convert("sym_wo", layer.sub.wo, "h_state"),
       Assign("input_sym", "sym"),
       Convert("sym_uf", layer.sub.uf, "input_sym"),
       Convert("sym_ui", layer.sub.ui, "input_sym"),
       Convert("sym_ug", layer.sub.ug, "input_sym"),
       Convert("sym_uo", layer.sub.uo, "input_sym"),
       Op2("add_f", "elemwise_add", "sym_wf", "sym_uf"),
       Op2("add_i", "elemwise_add", "sym_wi", "sym_ui"),
       Op2("add_g", "elemwise_add", "sym_wg", "sym_ug"),
       Op2("add_o", "elemwise_add", "sym_wo", "sym_uo"),
       Act("act_f", "add_f", LOGISTIC),
       Act("act_i", "add_i", LOGISTIC),
       Act("act_g", "add_g", TANH),
       Act("act_o", "add_o", LOGISTIC),
       Op2("mul_t", "elemwise_mul", "act_i", "act_g"),
       Op2("c_state", "elemwise_mul", "act_f", "c_state"),
       Op2("c_state", "elemwise_add", "mul_t", "c_state"),
       Act("h_state", "c_state", TANH),
       Op2("h_state", "elemwise_mul", "act_o", "h_state"),
       OutsAdd("c_state"),
       OutsAdd("h_state"),
       Assign("sym", "h_state") >>

(* The loop body of the GRU branch. *)
GruBody(layer) ==
    << Convert("sym_wz", layer.sub.wz, "state"),
       Convert("sym_wr", layer.sub.wr, "state"),
       Assign("input_sym", "sym"),
       Convert("sym_uz", layer.sub.uz, "input_sym"),
       Convert("sym_ur", layer.sub.ur, "input_sym"),
       Convert("sym_uh", layer.sub.uh, "input_sym"),
       Op2("add_z", "elemwise_add", "sym_uz", "sym_wz"),
       Op2("add_r", "elemwise_add", "sym_ur", "sym_wr"),
       Act("act_z", "add_z", LOGISTIC),
       Act("act_r", "add_r", LOGISTIC),
       Op2("forgot", "elemwise_mul", "act_r", "state"),
       Convert("sym_wh", layer.sub.wh, "forgot"),
       Op2("h_state", "elemwise_add", "sym_uh", "sym_wh"),
       Act("h_state", "h_state", IF layer.tanh = 1 THEN TANH ELSE LOGISTIC),
       Op2("zs", "__mul_symbol__", "act_z", "state"),
       RSub1("nz", "act_z"),
       Op2("nh", "__mul_symbol__", "nz", "h_state"),
       Op2("sym", "__add_symbol__", "zs", "nh"),
       OutsAdd("sym") >>

(* The layer types _handle_darknet_rnn_layers processes. *)
RecurrentKinds == {RNN, CRNN, LSTM, GRU}

(* The state buffers a recurrent branch asks for before its loop. *)
StateBuffers(m, layer) ==
    IF layer.type = RNN THEN GetRnnStateBuffer(m, "state", layer, "rnn")
    ELSE IF layer.type = CRNN THEN GetRnnStateBuffer(m, "state", layer, "crnn")
    ELSE IF layer.type = LSTM
    THEN GetRnnStateBuffer(GetRnnStateBuffer(m, "h_state", layer, "lstm"),
                           "c_state", layer, "cell_state")
    ELSE GetRnnStateBuffer(m, "state", layer, "gru")

(* The loop body of the branch of the layer's type. *)
LoopBody(layer) ==
    IF layer.type \in {RNN, CRNN} THEN RnnBody(layer)
    ELSE IF layer.type = LSTM THEN LstmBody(layer)
    ELSE GruBody(layer)

(* _handle_darknet_rnn_layers with the steps check after the state buffers *)
HandleDarknetRnnLayersLateCheck(m, layers, layer_num) ==
    IF m.err # "" \/ layers[layer_num].type \notin RecurrentKinds THEN m
    ELSE IF layers[layer_num].type \in {LSTM, GRU} /\ layers[layer_num].steps > 1
    THEN Raise(StateBuffers(m, layers[layer_num]), "OpAttributeInvalid")
    ELSE SetSym(Repeat(StateBuffers(m, layers[layer_num]), layers,
                       LoopBody(layers[layer_num]), layers[layer_num].steps),
                layer_num, "sym")

(* processed, sym = self._handle_darknet_rnn_layers(layer_num, sym) *)
HandleDarknetRnnLayers(m, layers, layer_num) ==
    IF m.err # "" \/ layers[layer_num].type \notin RecurrentKinds THEN m
    ELSE IF layers[layer_num].type \in {LSTM, GRU} /\ layers[layer_num].steps > 1
    THEN Raise(m, "OpAttributeInvalid")
    ELSE SetSym(Repeat(StateBuffers(m, layers[layer_num]), layers,
                       LoopBody(layers[layer_num]), layers[layer_num].steps),
                layer_num, "sym")

(* self._outs.insert(0, _sym.Variable(name=k, init=self._tvmparams[k])) *)
OutsInsertParam(m, role) ==
    IF m.err # "" THEN m
    ELSE IF GetTvmParamsName(m.out_name.s, role) \notin DOMAIN m.tvmparams
    THEN Raise(m, "KeyError")
    ELSE OutsInsert(Variable(m, "k", GetTvmParamsName(m.out_name.s, role)), "k")

OutsInsertParamIf(on, m, role) == IF on THEN OutsInsertParam(m, role) ELSE m

(* _make_outlist that inserts the symbol of a last layer as well *)
MakeOutlistAlsoLast(m, layer, layer_num, n) ==
    IF layer.type \notin {REGION, YOLO} THEN m
    ELSE OutsInsert(OutsInsertParamIf(layer.type = YOLO,
                        OutsInsertParam(OutsInsertParam(m, "attr"), "bias"),
                        "mask"),
                    "sym")

(* self._make_outlist(sym, layer_name, layer, layer_num) *)
MakeOutlist(m, layer, layer_num, n) ==
    IF layer.type \notin {REGION, YOLO} THEN m
    ELSE OutsInsertIf(layer_num # n - 1,
                      OutsInsertParamIf(layer.type = YOLO,
                          OutsInsertParam(OutsInsertParam(m, "attr"), "bias"),
                          "mask"),
                      "sym")

(* The statements of the loop body of from_darknet after the two continue. *)
ConvertTail(m, layers, i, n) ==
    MakeOutlist(SetSym(Move(ParamsOf(ConvertFrom(m, "sym", layers, layers[i], i),
                                     layers[i]),
                            "sym", "ret"),
                       i, "sym"),
                layers[i], i, n)

----------------------------------------------------------------------------
----------------------------------------------------------------------------
(* The networks the model converts.  A layer is darknet's layer struct:    *)
(* every field is present in every layer.  Buffers hold distinct numbers.  *)

Buf(base, k) == [i \in 1..k |-> base + i]

Layer0 ==
    [type |-> BLANK, n |-> 0, c |-> 0, h |-> 0, w |-> 0, size |-> 0,
     stride |-> 0, pad |-> 0, groups |-> 1, activation |-> LINEAR,
     nweights |-> 0, nbiases |-> 0, batch_normalize |-> 0,
     dontloadscales |-> 0, outputs |-> 0, inputs |-> 0, out_c |-> 0,
     out_h |-> 0, out_w |-> 0, index |-> 0, input_layers |-> <<>>,
     steps |-> 0, tanh |-> 0, classes |-> 0, coords |-> 0, background |-> 0,
     softmax |-> 0, total |-> 0, temperature |-> 0, probability |-> 0,
     weights |-> <<>>, biases |-> <<>>, scales |-> <<>>,
     rolling_mean |-> <<>>, rolling_variance |-> <<>>, mask |-> <<>>,
     sub |-> <<>>]

(* A convolution of n filters over c channels with a size x size kernel. *)
ConvLayer(n, c, size, nweights, bn, dls, act) ==
    [Layer0 EXCEPT !.type = CONVOLUTIONAL, !.n = n, !.c = c, !.size = size,
                   !.h = MaxDim, !.w = MaxDim, !.stride = 1, !.pad = 0,
                   !.activation = act, !.nweights = nweights, !.nbiases = n,
                   !.batch_normalize = bn, !.dontloadscales = dls,
                   !.out_c = n, !.out_h = MaxDim - size + 1,
                   !.out_w = MaxDim - size + 1,
                   !.weights = Buf(0, nweights), !.biases = Buf(10, n),
                   !.scales = Buf(20, n), !.rolling_mean = Buf(30, n),
                   !.rolling_variance = Buf(40, n)]

(* A dense layer of the given inputs and outputs over a 1 x 1 x inputs map. *)
ConnectedLayer(inputs, outputs, bn, dls, act) ==
    [Layer0 EXCEPT !.type = CONNECTED, !.inputs = inputs, !.outputs = outputs,
                   !.h = 1, !.w = 1, !.c = inputs, !.activation = act,
                   !.batch_normalize = bn, !.dontloadscales = dls,
                   !.out_c = outputs, !.out_h = 1, !.out_w = 1,
                   !.weights = Buf(0, inputs * outputs),
                   !.biases = Buf(10, outputs), !.scales = Buf(20, outputs),
                   !.rolling_mean = Buf(30, outputs),
                   !.rolling_variance = Buf(40, outputs)]

MaxpoolLayer(w, size, stride, pad, out_w) ==
    [Layer0 EXCEPT !.type = MAXPOOL, !.w = w, !.h = w, !.c = 1, !.size = size,
                   !.stride = stride, !.pad = pad, !.out_w = out_w,
                   !.out_h = out_w, !.out_c = 1]

SoftmaxLayer(temperature) ==
    [Layer0 EXCEPT !.type = SOFTMAX, !.temperature = temperature,
                   !.inputs = 2, !.outputs = 2]

RegionLayer(background, softmax) ==
    [Layer0 EXCEPT !.type = REGION, !.n = 1, !.classes = 1, !.coords = 4,
                   !.background = background, !.softmax = softmax,
                   !.c = 6, !.h = 2, !.w = 2, !.out_c = 6, !.out_h = 2,
                   !.out_w = 2, !.biases = Buf(10, 2)]

YoloLayer ==
    [Layer0 EXCEPT !.type = YOLO, !.n = 1, !.total = 2, !.classes = 1,
                   !.c = 6, !.h = 2, !.w = 2, !.out_c = 6, !.out_h = 2,
                   !.out_w = 2, !.biases = Buf(10, 4), !.mask = Buf(-1, 1)]

RouteLayer(input_layers) ==
    [Layer0 EXCEPT !.type = ROUTE, !.n = Len(input_layers),
                   !.input_layers = input_layers, !.out_c = 2, !.out_h = 2,
                   !.out_w = 2]

ShortcutLayer(index, out_c, out_h) ==
    [Layer0 EXCEPT !.type = SHORTCUT, !.index = index, !.out_c = out_c,
                   !.out_h = out_h, !.out_w = out_h, !.activation = LINEAR]

KindLayer(type) == [Layer0 EXCEPT !.type = type]

(* A layer whose rule reads the stride only (reorg, upsample), or the      *)
(* pooling fields (avgpool).                                               *)
StrideLayer(type, stride) ==
    [Layer0 EXCEPT !.type = type, !.stride = stride, !.h = 2, !.w = 2,
                   !.c = 1, !.size = stride, !.out_c = 1, !.out_h = 2,
                   !.out_w = 2]

DropoutLayer(probability) ==
    [Layer0 EXCEPT !.type = DROPOUT, !.probability = probability,
                   !.inputs = 2, !.outputs = 2]

(* The recurrent layers, with the sub-layers darknet's parser gives them. *)
RnnSub(bn) == ConnectedLayer(1, 1, bn, 0, LEAKY)

RnnLayer(steps, bn) ==
    [Layer0 EXCEPT !.type = RNN, !.steps = steps, !.outputs = 1, !.n = 1,
                   !.out_c = 1, !.out_h = 1, !.out_w = 1,
                   !.sub = [input_layer |-> RnnSub(bn), self_layer |-> RnnSub(bn),
                            output_layer |-> RnnSub(bn)]]

CrnnSub(nweights) == ConvLayer(1, 1, 1, nweights, 0, 0, LEAKY)

CrnnLayer(steps, nweights) ==
    [Layer0 EXCEPT !.type = CRNN, !.steps = steps, !.outputs = 4, !.n = 1,
                   !.out_c = 1, !.out_h = 2, !.out_w = 2,
                   !.sub = [input_layer |-> CrnnSub(1), self_layer |-> CrnnSub(1),
                            output_layer |-> CrnnSub(nweights)]]

GateSub == ConnectedLayer(1, 1, 0, 0, LINEAR)

LstmLayer(steps) ==
    [Layer0 EXCEPT !.type = LSTM, !.steps = steps, !.outputs = 1,
                   !.out_c = 1, !.out_h = 1, !.out_w = 1,
                   !.sub = [wf |-> GateSub, wi |-> GateSub, wg |-> GateSub,
                            wo |-> GateSub, uf |-> GateSub, ui |-> GateSub,
                            ug |-> GateSub, uo |-> GateSub]]

GruLayer(steps, tanh) ==
    [Layer0 EXCEPT !.type = GRU, !.steps = steps, !.tanh = tanh, !.outputs = 1,
                   !.out_c = 1, !.out_h = 1, !.out_w = 1,
                   !.sub = [wz |-> GateSub, wr |-> GateSub, wh |-> GateSub,
                            uz |-> GateSub, ur |-> GateSub, uh |-> GateSub]]

(* The layers a network may hold at position i.  A route or shortcut names *)
(* earlier layers.                                                         *)
CoreLayers(i) ==
    {ConvLayer(2, 1, 1, 2, 0, 0, LEAKY), ConvLayer(2, 1, 1, 3, 0, 0, LEAKY),
     ConnectedLayer(2, 2, 0, 0, LINEAR), KindLayer(BLANK), KindLayer(COST),
     RegionLayer(0, 1), YoloLayer, RnnLayer(1, 0), RnnLayer(MaxSteps, 0),
     LstmLayer(1), LstmLayer(2)}
    \cup {RouteLayer(<<k>>) : k \in 0..(i - 1)}
    \cup {ShortcutLayer(k, 2, 2) : k \in {0, i - 1} \cap 0..(i - 1)}
    \cup (IF i >= 2 THEN {RouteLayer(<<i - 1, 0>>)} ELSE {})

(* The layer lists of length n, as sequences. *)
RECURSIVE Nets(_)
Nets(n) ==
    IF n = 0 THEN {<<>>}
    ELSE {Append(s, l) : s \in Nets(n - 1), l \in CoreLayers(n - 1)}

Acts == {LEAKY, LINEAR, ELU, RAMP}

(* Single layers in every variant of the fields the rules read. *)
VariantLayers ==
    {KindLayer(BLANK), KindLayer(COST), KindLayer(DECONVOLUTIONAL),
     KindLayer(BATCHNORM), KindLayer(DETECTION), KindLayer(L2NORM), YoloLayer,
     RouteLayer(<<0>>), MaxpoolLayer(5, 4, 3, 2, 3)}
    \cup {MaxpoolLayer(w, k, s, p, ow) :
              w \in 1..MaxStride, k \in 1..MaxDim, s \in 0..MaxStride,
              p \in 0..MaxDim, ow \in 1..MaxStride}
    \cup {StrideLayer(t, s) : t \in {AVGPOOL, REORG, UPSAMPLE}, s \in 0..MaxDim}
    \cup {DropoutLayer(p) : p \in 0..1}
    \cup {ShortcutLayer(0, c, s) : c \in 1..(MaxDim + 1), s \in 1..(2 * MaxDim)}
    \cup {SoftmaxLayer(t) : t \in 0..2}
    \cup {RegionLayer(b, s) : b, s \in 0..1}
    \cup {ConvLayer(d[1], d[2], d[3], d[4], bn, dls, LEAKY) :
              d \in {e \in (1..MaxDim) \X (1..MaxDim) \X (1..MaxDim)
                                \X (0..(MaxDim * MaxDim * MaxDim * MaxDim + 1)) :
                        e[4] <= e[1] * e[2] * e[3] * e[3] + 1},
              bn \in 0..1, dls \in 0..1}
    \cup {ConvLayer(1, 1, 1, 1, bn, 0, act) : bn \in 0..1, act \in Acts}
    \cup {ConnectedLayer(2, o, bn, dls, LINEAR) :
              o \in {0, 2}, bn \in 0..1, dls \in 0..1}
    \cup {RnnLayer(k, bn) : k \in 1..MaxSteps, bn \in 0..1}
    \cup {CrnnLayer(k, w) : k \in 1..MaxSteps, w \in 1..2}
    \cup {LstmLayer(k) : k \in 1..MaxSteps}
    \cup {GruLayer(k, t) : k \in 1..MaxSteps, t \in 0..1}

(* The layers that may stand before a variant. *)
LeadLayers ==
    {ConvLayer(2, 1, 1, 2, 0, 0, LEAKY), RnnLayer(1, 0), RegionLayer(0, 1)}

(* The state machine. *)

NoResult == [returned |-> FALSE]

(* GraphProto.__init__ *)
InitProto ==
    /\ pc = "running"
    /\ idx = 0
    /\ sym = Unbound
    /\ insym = Unbound
    /\ sym_array = <<>>
    /\ tvmparams = <<>>
    /\ outs = <<>>
    /\ state_ctr = [rnn |-> 0, crnn |-> 0, lstm |-> 0, cell_state |-> 0, gru |-> 0]
    /\ graph = <<>>
    /\ lists = <<>>
    /\ acclog = <<>>
    /\ paramlog = <<>>
    /\ statelog = <<>>
    /\ err = ""
    /\ result = NoResult

(* No second instance, no direct call of a rule. *)
NoPeer == [pc |-> "none"]

NoCall == [state |-> "none"]

(* Networks of up to MaxLayers layers. *)
Init ==
    /\ InitProto
    /\ peer = NoPeer /\ call = NoCall
    /\ \E n \in 0..MaxLayers : \E s \in Nets(n) :
          net = [n |-> n, layers |-> [i \in 0..(n - 1) |-> s[i + 1]]]

(* Networks of one variant layer, alone or after a lead layer. *)
InitLayer ==
    /\ InitProto
    /\ peer = NoPeer /\ call = NoCall
    /\ \/ \E v \in VariantLayers : net = [n |-> 1, layers |-> [i \in {0} |-> v]]
       \/ \E l \in LeadLayers, v \in VariantLayers :
             net = [n |-> 2, layers |-> [i \in 0..1 |-> IF i = 0 THEN l ELSE v]]

(* The machine record of the current state; the local sym of from_darknet  *)
(* is the local "sym".                                                     *)
Mach ==
    [graph |-> graph, lists |-> lists, sym_array |-> sym_array,
     tvmparams |-> tvmparams, outs |-> outs, state_ctr |-> state_ctr,
     acclog |-> acclog, paramlog |-> paramlog, statelog |-> statelog,
     err |-> "", loc |-> ("sym" :> sym),
     out_name |-> NoNames]

(* The state after the loop body left m, were the loop to go on after an   *)
(* exception.                                                              *)
BecomesAndGoesOn(m) ==
    /\ graph' = m.graph
    /\ lists' = m.lists
    /\ sym_array' = m.sym_array
    /\ tvmparams' = m.tvmparams
    /\ outs' = m.outs
    /\ state_ctr' = m.state_ctr
    /\ acclog' = m.acclog
    /\ paramlog' = m.paramlog
    /\ statelog' = m.statelog
    /\ err' = m.err
    /\ sym' = m.loc["sym"]
    /\ insym' = IF "pre" \in DOMAIN m.loc THEN m.loc["pre"] ELSE insym
    /\ pc' = "running"
    /\ idx' = idx + 1
    /\ UNCHANGED <<net, result, peer, call>>

(* The state after the loop body left m. *)
Becomes(m) ==
    /\ graph' = m.graph
    /\ lists' = m.lists
    /\ sym_array' = m.sym_array
    /\ tvmparams' = m.tvmparams
    /\ outs' = m.outs
    /\ state_ctr' = m.state_ctr
    /\ acclog' = m.acclog
    /\ paramlog' = m.paramlog
    /\ statelog' = m.statelog
    /\ err' = m.err
    /\ sym' = m.loc["sym"]
    /\ insym' = IF "pre" \in DOMAIN m.loc THEN m.loc["pre"] ELSE insym
    /\ pc' = IF m.err # "" THEN "error" ELSE "running"
    /\ idx' = IF m.err # "" THEN idx ELSE idx + 1
    /\ UNCHANGED <<net, result, peer, call>>

(* The loop body for a layer _preproc_layer skips. *)
SkipLayer ==
    /\ pc = "running" /\ idx < net.n
    /\ skip_layer(net.layers[idx])
    /\ Becomes(PreprocLayer(Mach, net.layers[idx], idx))

(* The loop body for a layer _handle_darknet_rnn_layers unrolls. *)
RecurrentLayer ==
    /\ pc = "running" /\ idx < net.n
    /\ net.layers[idx].type \in RecurrentKinds
    /\ Becomes(HandleDarknetRnnLayers(PreprocLayer(Mach, net.layers[idx], idx),
                                       net.layers, idx))

(* The loop body for a layer a conversion rule takes. *)
ConvertLayer ==
    /\ pc = "running" /\ idx < net.n
    /\ ~skip_layer(net.layers[idx])
    /\ net.layers[idx].type \notin RecurrentKinds
    /\ Becomes(ConvertTail(PreprocLayer(Mach, net.layers[idx], idx),
                            net.layers, idx, net.n))

(* _sym.Group takes symbols only. *)
GroupOk(elems) == \A j \in 1..Len(elems) : IsSym(elems[j])

(* _as_list(sym) + self._outs, with a primary that comes last *)
FinalOutsPrimaryLast(m) == m.outs \o Elems(m, m.loc["sym"])

(* _as_list(sym) + self._outs *)
FinalOuts(m) == Elems(m, m.loc["sym"]) \o m.outs

(* The statements of from_darknet after the loop. *)
Finalize ==
    /\ pc = "running" /\ idx = net.n
    /\ LET e == IF sym = Unbound THEN "UnboundLocalError"
                ELSE IF ~GroupOk(FinalOuts(Mach)) THEN "TypeError" ELSE ""
       IN  /\ outs' = IF sym = Unbound THEN outs ELSE FinalOuts(Mach)
           /\ err' = e
           /\ pc' = IF e = "" THEN "done" ELSE "error"
           /\ result' = IF e = "" THEN [returned |-> TRUE,
                                        group |-> FinalOuts(Mach),
                                        params |-> tvmparams]
                        ELSE result
    /\ UNCHANGED <<net, idx, sym, insym, sym_array, tvmparams, state_ctr, graph,
                   lists, acclog, paramlog, statelog, peer, call>>

Next == SkipLayer \/ RecurrentLayer \/ ConvertLayer \/ Finalize

Spec == Init /\ [][Next]_vars

SpecLayer == InitLayer /\ [][Next]_vars


----------------------------------------------------------------------------
(* Two GraphProto instances in one process.  Each owns its fields; the     *)
(* symbols and the list objects they build live on the one heap, and the   *)
(* graph library names the ops of both.                                    *)

(* The body of the loop of from_darknet for layer i. *)
LoopOver(m, layers, i, n) ==
    IF skip_layer(layers[i]) THEN PreprocLayer(m, layers[i], i)
    ELSE IF layers[i].type \in RecurrentKinds
    THEN HandleDarknetRnnLayers(PreprocLayer(m, layers[i], i), layers, i)
    ELSE ConvertTail(PreprocLayer(m, layers[i], i), layers, i, n)

(* The recurrent layers the two instances convert. *)
PeerLayers == {RnnLayer(1, 0), CrnnLayer(1, 1), LstmLayer(1), GruLayer(1, 0)}

RECURSIVE PeerNets(_)
PeerNets(n) ==
    IF n = 0 THEN {<<>>}
    ELSE {Append(s, l) : s \in PeerNets(n - 1), l \in PeerLayers}

(* GraphProto(net) *)
NewProto(s) ==
    [net |-> [n |-> Len(s), layers |-> [i \in 0..(Len(s) - 1) |-> s[i + 1]]],
     pc |-> "running", idx |-> 0, sym |-> Unbound, insym |-> Unbound,
     sym_array |-> <<>>, tvmparams |-> <<>>, outs |-> <<>>,
     state_ctr |-> [rnn |-> 0, crnn |-> 0, lstm |-> 0, cell_state |-> 0,
                    gru |-> 0],
     acclog |-> <<>>, paramlog |-> <<>>, statelog |-> <<>>, err |-> "",
     result |-> NoResult]

InitTwo ==
    /\ InitProto
    /\ call = NoCall
    /\ \E n \in 1..MaxPeerLayers : \E s \in PeerNets(n) :
          net = NewProto(s).net
    /\ \E n \in 1..MaxPeerLayers : \E s \in PeerNets(n) :
          /\ \A j \in 1..n : s[j].type \in {RNN, LSTM}
          /\ peer = NewProto(s)

(* The machine record of the second instance. *)
PeerMach ==
    [graph |-> graph, lists |-> lists, sym_array |-> peer.sym_array,
     tvmparams |-> peer.tvmparams, outs |-> peer.outs,
     state_ctr |-> peer.state_ctr, acclog |-> peer.acclog,
     paramlog |-> peer.paramlog, statelog |-> peer.statelog, err |-> "",
     loc |-> ("sym" :> peer.sym), out_name |-> NoNames]

(* The state after the loop body of the second instance left m. *)
PeerBecomes(m) ==
    /\ graph' = m.graph
    /\ lists' = m.lists
    /\ peer' = [peer EXCEPT
                    !.sym_array = m.sym_array, !.tvmparams = m.tvmparams,
                    !.outs = m.outs, !.state_ctr = m.state_ctr,
                    !.acclog = m.acclog, !.paramlog = m.paramlog,
                    !.statelog = m.statelog, !.err = m.err,
                    !.sym = m.loc["sym"],
                    !.insym = IF "pre" \in DOMAIN m.loc THEN m.loc["pre"] ELSE @,
                    !.pc = IF m.err # "" THEN "error" ELSE "running",
                    !.idx = IF m.err # "" THEN @ ELSE @ + 1]
    /\ UNCHANGED <<net, pc, idx, sym, insym, sym_array, tvmparams, outs,
                   state_ctr, acclog, paramlog, statelog, err, result, call>>

(* One pass of the loop of the second instance. *)
PeerLayer ==
    /\ peer.pc = "running" /\ peer.idx < peer.net.n
    /\ PeerBecomes(LoopOver(PeerMach, peer.net.layers, peer.idx, peer.net.n))

(* The statements of from_darknet after the loop, in the second instance. *)
PeerFinalize ==
    /\ peer.pc = "running" /\ peer.idx = peer.net.n
    /\ LET e == IF peer.sym = Unbound THEN "UnboundLocalError"
                ELSE IF ~GroupOk(FinalOuts(PeerMach)) THEN "TypeError" ELSE ""
       IN  peer' = [peer EXCEPT
                        !.outs = IF peer.sym = Unbound THEN @
                                 ELSE FinalOuts(PeerMach),
                        !.err = e,
                        !.pc = IF e = "" THEN "done" ELSE "error",
                        !.result = IF e = ""
                                   THEN [returned |-> TRUE,
                                         group |-> FinalOuts(PeerMach),
                                         params |-> peer.tvmparams]
                                   ELSE @]
    /\ UNCHANGED <<net, pc, idx, sym, insym, sym_array, tvmparams, outs,
                   state_ctr, graph, lists, acclog, paramlog, statelog, err,
                   result, call>>

NextTwo == RecurrentLayer \/ Finalize \/ PeerLayer \/ PeerFinalize

SpecTwo == InitTwo /\ [][NextTwo]_vars

----------------------------------------------------------------------------
(* A conversion rule called on its own: rule(inputs, attrs) with inputs a  *)
(* list holding one symbol.  The driver never calls the rule of a          *)
(* DECONVOLUTIONAL layer, _get_darknet_attrs having no branch for it.      *)

(* key: value, or nothing when the attribute is left out. *)
Absent == [t |-> "absent", v |-> 0]

Attr(key, value) == IF value.t = "absent" THEN <<>> ELSE key :> value

(* The attribute map the rule is called with: every attribute it reads,   *)
(* left out or in one of the values chosen by number.                      *)
TransposeAttrs(ts, k, l, nf, nb) ==
    LET TargetShapes == <<Absent, Tup(<<MaxDim, MaxDim>>)>>
        Kernels == <<Absent, S(1), Tup(<<1, 1>>), Tup(<<MaxDim, MaxDim>>)>>
        Layouts == <<Absent, S("NCHW"), S("NHWC"), S("NCW")>>
        NoBias == <<Absent, B(TRUE)>>
    IN  Attr("target_shape", TargetShapes[ts]) @@ Attr("kernel", Kernels[k])
            @@ Attr("layout", Layouts[l])
            @@ Attr("num_filter", IF nf = 0 THEN Absent ELSE I(nf))
            @@ Attr("no_bias", NoBias[nb])

(* A parameter table as an earlier conversion left it. *)
SomeParams(filled) ==
    IF filled
    THEN Name("conv2d", 0, "weight") :> [shape |-> <<1>>, at |-> (<<0>> :> 1)]
    ELSE <<>>

InitRule ==
    /\ pc = "rule"
    /\ idx = 0
    /\ sym = Unbound
    /\ insym = Unbound
    /\ sym_array = <<>>
    /\ \E filled \in BOOLEAN : tvmparams = SomeParams(filled)
    /\ outs = <<>>
    /\ state_ctr = [rnn |-> 0, crnn |-> 0, lstm |-> 0, cell_state |-> 0, gru |-> 0]
    /\ graph = <<[op |-> "Variable", name |-> Name("data", -1, ""), auto |-> FALSE,
                  args |-> <<>>, attrs |-> <<>>]>>
    /\ lists = <<<<SymV(1)>>>>
    /\ acclog = <<>>
    /\ paramlog = <<>>
    /\ statelog = <<>>
    /\ err = ""
    /\ result = NoResult
    /\ net = [n |-> 0, layers |-> <<>>]
    /\ peer = NoPeer
    /\ \E ts \in 1..2, k \in 1..4, l \in 1..4, nf \in 0..MaxDim, nb \in 1..2 :
          call = [state |-> "ready", attrs |-> TransposeAttrs(ts, k, l, nf, nb)]

(* _darknet_conv2d_transpose(inputs, attrs) *)
CallConv2dTranspose ==
    /\ call.state = "ready"
    /\ LET m == DarknetConv2dTranspose(
                    [Mach EXCEPT !.loc = ("inputs" :> ListV(1))], call.attrs)
       IN  /\ graph' = m.graph
           /\ lists' = m.lists
           /\ tvmparams' = m.tvmparams
           /\ err' = m.err
           /\ call' = [call EXCEPT !.state = IF m.err = "" THEN "returned" ELSE "raised"]
    /\ UNCHANGED <<net, pc, idx, sym, insym, sym_array, outs, state_ctr, acclog,
                   paramlog, statelog, result, peer>>

NextRule == CallConv2dTranspose

SpecRule == InitRule /\ [][NextRule]_vars

----------------------------------------------------------------------------
(* The properties of the conversion. *)

(* The values of a sequence of accumulation records. *)
Values(log) == [j \in 1..Len(log) |-> log[j].v]

RECURSIVE Reverse(_)
Reverse(s) == IF s = <<>> THEN <<>> ELSE Append(Reverse(Tail(s)), Head(s))

IsDet(e) == e.by = "det"

IsRnn(e) == e.by = "rnn"

(* The symbol an entry of the layer->symbol map stands for. *)
SymbolOf(v) == IF v.k = "list" THEN lists[v.id][1] ELSE v

(* C1: on every successful run over a non-empty layer list the returned    *)
(* group is the final primary output (the symbol recorded for, or          *)
(* propagated to, the last layer) followed by every accumulated extra      *)
(* output, each exactly once, and it comes with the parameter table.       *)
C1_GroupIsPrimaryThenExtras ==
    (pc = "done" /\ net.n >= 1) =>
        /\ result.returned
        /\ result.group[1] = SymbolOf(sym_array[net.n - 1])
        /\ Len(result.group) = 1 + Len(acclog)
        /\ \A k \in 1..Len(acclog) :
              Cardinality({j \in 2..Len(result.group) :
                              result.group[j] = acclog[k].v}) = 1
        /\ result.params = tvmparams

C1_Witness ==
    /\ pc = "done"
    /\ net.n = MaxLayers
    /\ net.layers[net.n - 1].type \in {BLANK, ROUTE}
    /\ Len(acclog) >= 3
    /\ DOMAIN tvmparams # {}

(* The place of an accumulated output in the returned group. *)
PlaceOf(v) == CHOOSE j \in 2..Len(result.group) : result.group[j] = v

(* C2: in the final group the detection-head extras come first, the most   *)
(* recently inserted first, and the recurrent states follow them in the    *)
(* order they were accumulated.                                            *)
C2_DetectionFrontRecurrentBack ==
    pc = "done" =>
        Tail(result.group) = Reverse(Values(SelectSeq(acclog, IsDet)))
                                 \o Values(SelectSeq(acclog, IsRnn))

C2_Witness ==
    /\ pc = "done"
    /\ Len(SelectSeq(acclog, IsDet)) >= 3
    /\ Len(SelectSeq(acclog, IsRnn)) >= 2
    /\ acclog[1].by = "rnn"

(* C2 as stated: of any two extra outputs the one accumulated later        *)
(* precedes the one accumulated earlier in the final group.                *)
C2_LaterPrecedesEarlier ==
    pc = "done" =>
        \A a, b \in 1..Len(acclog) :
            a < b => PlaceOf(acclog[b].v) < PlaceOf(acclog[a].v)

(* Whether symbol a is b or is computed from b in graph g. *)
RECURSIVE Reaches(_, _, _)
Reaches(g, a, b) ==
    \/ a = b
    \/ /\ IsSym(a)
       /\ \E j \in 1..Len(g[a.id].args) : Reaches(g, g[a.id].args[j], b)

(* The loop body runs for the layer at idx and raises nothing. *)
StepsOver(kinds) ==
    /\ pc = "running" /\ idx < net.n
    /\ net.layers[idx].type \in kinds
    /\ pc' = "running"

(* C3: an RNN or CRNN layer with steps = k adds exactly k state symbols to *)
(* the extra outputs, one per time step and in time-step order, and the    *)
(* symbol recorded for the layer is the output sub-layer's result of the   *)
(* last step.                                                              *)
C3_RnnUnrollAddsStatesInOrder ==
    [][StepsOver({RNN, CRNN}) =>
        LET k == net.layers[idx].steps
            base == Len(outs)
            state(t) == outs'[base + t]
        IN  /\ Len(outs') = base + k
            /\ SubSeq(outs', 1, base) = outs
            /\ Cardinality({j \in (Len(graph) + 1)..Len(graph') :
                               graph'[j].op = "elemwise_add"}) = k
            /\ \A t \in 1..k :
                  /\ IsSym(state(t))
                  /\ state(t).id > Len(graph)
                  /\ graph'[state(t).id].op = "elemwise_add"
            /\ \A t \in 1..(k - 1) :
                  /\ state(t).id < state(t + 1).id
                  /\ Reaches(graph', state(t + 1), state(t))
            /\ sym_array'[idx] = SymV(Len(graph'))
            /\ Reaches(graph', sym_array'[idx], state(k))]_vars

C3_Witness ==
    /\ pc = "running" /\ idx = 2
    /\ net.layers[0].type = RNN
    /\ net.layers[1].type = CRNN
    /\ net.layers[1].steps = MaxSteps
    /\ Len(outs) = 1 + MaxSteps

(* C4: an LSTM or GRU layer is unrolled only when its steps field is 1;    *)
(* with steps > 1 it fails with InvalidAttribute before it changes the     *)
(* state counters, the extra outputs, the layer->symbol map or the         *)
(* parameter table.                                                        *)
C4_GatedStepsAboveOneRejected ==
    [][(pc = "running" /\ idx < net.n /\ net.layers[idx].type \in {LSTM, GRU}) =>
        /\ net.layers[idx].steps > 1 =>
              /\ pc' = "error"
              /\ err' = "OpAttributeInvalid"
              /\ UNCHANGED <<state_ctr, outs, sym_array, tvmparams>>
        /\ (outs' # outs \/ idx \in DOMAIN sym_array') =>
              net.layers[idx].steps = 1]_vars

C4_Witness ==
    /\ pc = "error" /\ err = "OpAttributeInvalid" /\ idx = 1
    /\ net.layers[1].type = GRU
    /\ net.layers[1].steps = MaxSteps
    /\ state_ctr["rnn"] = 1
    /\ Len(outs) = 1

(* The nearest layer at or before i that is neither blank nor cost. *)
HasNearest(i) == \E j \in 0..i : net.layers[j].type \notin {BLANK, COST}

Nearest(i) ==
    CHOOSE j \in 0..i :
        /\ net.layers[j].type \notin {BLANK, COST}
        /\ \A k \in (j + 1)..i : net.layers[k].type \in {BLANK, COST}

(* The layer at idx is being processed. *)
AtLayer(kinds) ==
    pc = "running" /\ idx < net.n /\ net.layers[idx].type \in kinds

(* C5: a blank or cost layer at index i creates no op, records for i what  *)
(* is recorded for i-1 (at index 0: the list holding the network input),   *)
(* and leaves the parameter table, the extra outputs and the state         *)
(* counters alone; the default input of the layer after it is the output   *)
(* of the nearest earlier layer that is neither blank nor cost.            *)
C5_BlankCostPropagate ==
    [][/\ AtLayer({BLANK, COST}) =>
            /\ pc' = "running" /\ idx' = idx + 1
            /\ UNCHANGED <<tvmparams, outs, state_ctr, acclog>>
            /\ \A j \in (Len(graph) + 1)..Len(graph') : graph'[j].op = "Variable"
            /\ idx >= 1 =>
                  /\ UNCHANGED <<graph, lists>>
                  /\ sym_array' = [x \in DOMAIN sym_array \cup {idx} |->
                                      IF x = idx THEN sym_array[idx - 1]
                                      ELSE sym_array[x]]
            /\ idx = 0 =>
                  /\ DOMAIN sym_array' = {0}
                  /\ sym_array'[0].k = "list"
                  /\ Len(lists'[sym_array'[0].id]) = 1
                  /\ graph'[lists'[sym_array'[0].id][1].id].name
                         = Name("data", -1, "")
       /\ (/\ pc = "running" /\ 1 <= idx /\ idx < net.n
           /\ net.layers[idx - 1].type \in {BLANK, COST}
           /\ net.layers[idx].type \notin {ROUTE, SHORTCUT}) =>
            insym' = IF HasNearest(idx - 1) THEN sym_array[Nearest(idx - 1)]
                     ELSE sym_array[0]]_vars

C5_Witness ==
    /\ pc = "running" /\ idx = 3
    /\ net.layers[0].type = RNN
    /\ net.layers[1].type = COST
    /\ net.layers[2].type = CONVOLUTIONAL
    /\ insym = sym_array[0]
    /\ Len(outs) >= 1

(* C6 as stated: the entry a single-input route records is the symbol      *)
(* recorded for the layer it names, so a later back-reference to the route *)
(* receives what a reference to that layer receives; a route of two or     *)
(* more inputs is one concatenation of the named layers' symbols in the    *)
(* listed order.                                                           *)
C6_SingleRouteIsAlias ==
    \A i \in DOMAIN sym_array :
        net.layers[i].type = ROUTE =>
            IF net.layers[i].n = 1
            THEN sym_array[i] = sym_array[net.layers[i].input_layers[1]]
            ELSE /\ IsSym(sym_array[i])
                 /\ graph[sym_array[i].id].op = "concatenate"
                 /\ graph[sym_array[i].id].args
                        = [k \in 1..net.layers[i].n |->
                              sym_array[net.layers[i].input_layers[k]]]

(* v is the input variable of the given role of the op behind of. *)
ParamVar(g, v, of, role) ==
    /\ IsSym(v)
    /\ g[v.id].op = "Variable"
    /\ g[v.id].name = [g[of.id].name EXCEPT !.role = role]

(* C7: a region or yolo layer inserts its attr and bias variables, and the *)
(* mask one for yolo, at the front of the extra outputs, and its own       *)
(* symbol in front of them exactly when it is not the last layer; a        *)
(* detection head in last position is in the final group once, as the      *)
(* primary output.                                                         *)
C7_DetectionHeadOutputs ==
    [][/\ (AtLayer({REGION, YOLO}) /\ pc' = "running") =>
            LET head == sym_array'[idx]
                own == IF idx # net.n - 1 THEN 1 ELSE 0
                mask == IF net.layers[idx].type = YOLO THEN 1 ELSE 0
            IN  /\ Len(outs') = Len(outs) + own + mask + 2
                /\ SubSeq(outs', own + mask + 3, Len(outs')) = outs
                /\ own = 1 => outs'[1] = head
                /\ mask = 1 => ParamVar(graph', outs'[own + 1], head, "mask")
                /\ ParamVar(graph', outs'[own + mask + 1], head, "bias")
                /\ ParamVar(graph', outs'[own + mask + 2], head, "attr")
                /\ \A j \in (own + 1)..(own + mask + 2) :
                      graph'[outs'[j].id].name \in DOMAIN tvmparams'
       /\ (/\ pc = "running" /\ pc' = "done" /\ net.n >= 1
           /\ net.layers[net.n - 1].type \in {REGION, YOLO}) =>
            /\ result'.group[1] = sym_array[net.n - 1]
            /\ Cardinality({j \in 1..Len(result'.group) :
                               result'.group[j] = sym_array[net.n - 1]}) = 1]_vars

C7_Witness ==
    /\ pc = "done" /\ net.n = 3
    /\ net.layers[0].type = REGION
    /\ net.layers[1].type = YOLO
    /\ net.layers[2].type = REGION
    /\ Len(result.group) = 10

(* The nodes of the given ops the step creates. *)
NewNodes(ops) ==
    {j \in (Len(graph) + 1)..Len(graph') : graph'[j].op \in ops}

(* The parameter keys the step adds, and whether it keeps the others. *)
Gained == DOMAIN tvmparams' \ DOMAIN tvmparams

KeepsParams == \A key \in DOMAIN tvmparams : tvmparams'[key] = tvmparams[key]

Key(j, role) == [graph'[j].name EXCEPT !.role = role]

(* The values of a one-dimensional array. *)
Flat(a) == [j \in 1..a.shape[1] |-> a.at[<<j - 1>>]]

HasWeights(layer) ==
    IF layer.type = CONVOLUTIONAL THEN layer.nweights # 0
    ELSE layer.outputs * layer.inputs # 0

(* C8: for a convolution or dense layer with weights, when batch_normalize *)
(* is 1 and dontloadscales is not, a batch norm is chained and the table   *)
(* gains exactly the op's weight and the batch norm's gamma, moving_mean,  *)
(* moving_var and beta, beta holding the bias buffer; otherwise no batch   *)
(* norm is chained and the table gains exactly the op's weight and bias.   *)
(* Extraction never reads an output-name slot the rule did not fill.       *)
C8_BatchNormOrBiasKeys ==
    [][AtLayer({CONVOLUTIONAL, CONNECTED}) =>
        /\ err' # "KeyError"
        /\ (pc' = "running" /\ HasWeights(net.layers[idx])) =>
            LET layer == net.layers[idx]
                ops == NewNodes({"conv2d", "dense"})
                bns == NewNodes({"batch_norm"})
                size == IF layer.type = CONVOLUTIONAL THEN layer.n
                        ELSE layer.outputs
            IN  /\ Cardinality(ops) = 1
                /\ KeepsParams
                /\ \A o \in ops :
                      IF layer.batch_normalize = 1 /\ layer.dontloadscales # 1
                      THEN /\ Cardinality(bns) = 1
                           /\ \A b \in bns :
                                 /\ graph'[b].args = <<SymV(o)>>
                                 /\ Gained = {Key(o, "weight"), Key(b, "gamma"),
                                              Key(b, "moving_mean"),
                                              Key(b, "moving_var"),
                                              Key(b, "beta")}
                                 /\ Flat(tvmparams'[Key(b, "beta")])
                                        = SubSeq(layer.biases, 1, size)
                      ELSE /\ bns = {}
                           /\ Gained = {Key(o, "weight"), Key(o, "bias")}
                           /\ Flat(tvmparams'[Key(o, "bias")])
                                  = SubSeq(layer.biases, 1, size)]_vars

C8_Witness ==
    /\ pc = "running" /\ idx = 2
    /\ net.layers[0].type = CONVOLUTIONAL
    /\ net.layers[1].type = CONNECTED
    /\ net.layers[1].batch_normalize = 1
    /\ net.layers[1].dontloadscales = 0
    /\ Cardinality(DOMAIN tvmparams) = 7

(* The weight count the declared dimensions of a convolution ask for. *)
Declared(layer) == layer.n * layer.c * layer.size * layer.size

(* The registered weight array holds the buffer in flat order. *)
RowMajor(a, layer) ==
    /\ a.shape = <<layer.n, layer.c, layer.size, layer.size>>
    /\ \A f \in 0..(layer.n - 1), ch \in 0..(layer.c - 1),
          y \in 0..(layer.size - 1), x \in 0..(layer.size - 1) :
          a.at[<<f, ch, y, x>>]
              = layer.weights[((f * layer.c + ch) * layer.size + y) * layer.size
                              + x + 1]

Supported == {LOGISTIC, RELU, TANH, LINEAR, LEAKY, ELU}

(* The layer at idx is a convolution whose rule raises nothing. *)
AtConvolution ==
    AtLayer({CONVOLUTIONAL}) /\ net.layers[idx].activation \in Supported

C10_AllOrNothing ==
    [][/\ pc = "running"
       /\ pc' = "error" =>
             /\ err' # ""
             /\ idx' = idx
             /\ ~result'.returned
             /\ \A j \in DOMAIN sym_array' : j <= idx
       /\ result'.returned =>
             /\ pc' = "done" /\ err' = ""
             /\ idx = net.n
             /\ DOMAIN sym_array' = 0..(net.n - 1)
             /\ result'.params = tvmparams'
       /\ pc' # "error" => (result'.returned <=> idx = net.n)]_vars

C10_Witness ==
    /\ pc = "error" /\ net.n = 3 /\ idx = 1
    /\ err = "OpAttributeInvalid"
    /\ DOMAIN tvmparams # {}
    /\ outs # <<>>
    /\ ~result.returned

(* The layer kinds with a conversion rule of their own in the convert map. *)
RuleKinds ==
    {CONVOLUTIONAL, DECONVOLUTIONAL, CONNECTED, MAXPOOL, AVGPOOL, SOFTMAX,
     DROPOUT, BATCHNORM, ROUTE, REORG, REGION, SHORTCUT, UPSAMPLE, L2NORM, YOLO}

(* C11: a layer of a kind that has a conversion rule of its own reaches    *)
(* that rule: the driver never rejects it as an unsupported operator       *)
(* while it derives the attributes.                                        *)
C11_RuleKindsReachTheirRule ==
    [][(AtLayer(RuleKinds) /\ net.layers[idx].activation \in Supported) =>
          err' # "OpNotImplemented"]_vars

(* The roles a parameter key ends in. *)
Roles == {"weight", "bias", "beta", "gamma", "moving_mean", "moving_var", "attr",
          "mask"}

(* key is the generated name of an op of g, followed by a role. *)
KeyOfGeneratedName(g, key) ==
    /\ key.role \in Roles
    /\ \E j \in 1..Len(g) : g[j].auto /\ g[j].name = [key EXCEPT !.role = ""]

(* C12: every key of the parameter table is the generated name of an op    *)
(* followed by a role and is written once: a step keeps every entry the    *)
(* table holds and writes new keys only, the repeated sub-layer            *)
(* conversions of a recurrent unroll included.                             *)
C12_KeysWrittenOnce ==
    [][/\ KeepsParams
       /\ \A a, b \in 1..Len(paramlog') : a # b => paramlog'[a] # paramlog'[b]
       /\ DOMAIN tvmparams' = {paramlog'[a] : a \in 1..Len(paramlog')}
       /\ \A key \in DOMAIN tvmparams' : KeyOfGeneratedName(graph', key)]_vars

C12_Witness ==
    /\ pc = "done" /\ net.n = 3
    /\ net.layers[0].type = RNN /\ net.layers[0].steps = MaxSteps
    /\ net.layers[1].type = RNN
    /\ net.layers[2].type = CONVOLUTIONAL
    /\ Len(paramlog) = 6 * MaxSteps + 6 + 2

(* The number of layers of the kind of layer i before it. *)
Earlier(layers, i) ==
    Cardinality({j \in 0..(i - 1) : layers[j].type = layers[i].type})

(* The state variable names layer i asks for when its instance runs alone. *)
NamesOf(layers, i) ==
    LET k == Earlier(layers, i)
    IN  CASE layers[i].type = RNN -> <<Name("rnn", k, "state")>>
          [] layers[i].type = CRNN -> <<Name("crnn", k, "state")>>
          [] layers[i].type = LSTM -> <<Name("lstm", k, "state"),
                                        Name("cell_state", k, "state")>>
          [] layers[i].type = GRU -> <<Name("gru", k, "state")>>
          [] OTHER -> <<>>

RECURSIVE NamesUpTo(_, _)
NamesUpTo(layers, i) ==
    IF i = 0 THEN <<>> ELSE NamesUpTo(layers, i - 1) \o NamesOf(layers, i - 1)

(* The names are those of the instance run alone, each made once and each  *)
(* the name of a variable of the graph.                                    *)
NamesAsAlone(p, log) ==
    /\ log = NamesUpTo(p.layers, p.upto)
    /\ \A a, b \in 1..Len(log) : a # b => log[a] # log[b]
    /\ \A a \in 1..Len(log) :
          \E j \in 1..Len(graph) : graph[j].op = "Variable" /\ graph[j].name = log[a]

(* C13: under every interleaving of the layer steps of two instances each *)
(* instance makes the state variable names it makes when run alone: the    *)
(* k-th layer of a recurrent kind gets <kind><k-1>_state, an LSTM one      *)
(* lstm and one cell_state name, and no name twice in one run.             *)
C13_StateNamesPerInstance ==
    /\ pc # "error" =>
          NamesAsAlone([layers |-> net.layers, upto |-> idx], statelog)
    /\ peer.pc \in {"running", "done"} =>
          NamesAsAlone([layers |-> peer.net.layers, upto |-> peer.idx],
                       peer.statelog)

(* The place in the graph of the variable of the given name. *)
VarAt(name) ==
    CHOOSE j \in 1..Len(graph) : graph[j].op = "Variable" /\ graph[j].name = name

C13_Witness ==
    /\ pc = "done" /\ peer.pc = "done"
    /\ statelog = <<Name("gru", 0, "state"), Name("gru", 1, "state")>>
    /\ peer.statelog = <<Name("lstm", 0, "state"), Name("cell_state", 0, "state"),
                         Name("lstm", 1, "state"), Name("cell_state", 1, "state")>>
    /\ VarAt(Name("gru", 0, "state")) < VarAt(Name("lstm", 0, "state"))
    /\ VarAt(Name("lstm", 0, "state")) < VarAt(Name("gru", 1, "state"))
    /\ VarAt(Name("gru", 1, "state")) < VarAt(Name("lstm", 1, "state"))

(* The naive output width (w - size + 2 * pad) / stride + 1 of a max-pool  *)
(* layer is below the recorded one, as a comparison of fractions.          *)
NaiveBelow(layer) ==
    layer.w - layer.size + 2 * layer.pad + layer.stride < layer.out_w * layer.stride

(* (out_w - naive) * stride, which is a whole number. *)
ExtraPadExact(layer) ==
    layer.out_w * layer.stride
        - (layer.w - layer.size + 2 * layer.pad + layer.stride)

(* Node j pads the trailing edge of both spatial dimensions by e. *)
PadsTrailing(j, e) ==
    graph'[j].attrs.pad_width = <<<<0, 0>>, <<0, 0>>, <<0, e>>, <<0, e>>>>

(* C14: for a max-pool layer the extra pad is derived exactly when the     *)
(* naive output width (w - k + 2p) / s + 1 is below the recorded out_w,    *)
(* it is (out_w - naive) * s, and it is applied to the trailing edge of    *)
(* both spatial dimensions only, before the pooling.                       *)
C14_ExtraPadIsTheShortfall ==
    [][(AtLayer({MAXPOOL}) /\ net.layers[idx].stride > 0 /\ err' = "") =>
          LET layer == net.layers[idx]
              pads == NewNodes({"pad"})
              pools == NewNodes({"max_pool2d"})
          IN  /\ (pads # {}) <=> NaiveBelow(layer)
              /\ \A j \in pads :
                    /\ PadsTrailing(j, ExtraPadExact(layer))
                    /\ \A q \in pools : graph'[q].args = <<SymV(j)>>]_vars


(* The width of the input of pool node q, the layer's input being w wide:  *)
(* a pad node before the pool widens it by what it pads on the last axis.  *)
WidthInto(q, w) ==
    LET j == graph'[q].args[1].id
    IN  IF graph'[j].op = "pad"
        THEN w + graph'[j].attrs.pad_width[4][1] + graph'[j].attrs.pad_width[4][2]
        ELSE w

(* The output width of a pooling over an input w wide. *)
PoolWidth(w, attrs) ==
    (w - attrs.pool_size[2] + 2 * attrs.padding[2]) \div attrs.strides[2] + 1

(* C18: whenever the naive output width of a max-pool layer is below the   *)
(* recorded out_w, the pooling over the input widened by the extra pad on  *)
(* the trailing edge is exactly out_w wide.                                *)
C18_PaddedPoolHasRecordedWidth ==
    [][(/\ AtLayer({MAXPOOL}) /\ net.layers[idx].stride > 0 /\ err' = ""
        /\ NaiveBelow(net.layers[idx])) =>
          \A q \in NewNodes({"max_pool2d"}) :
              PoolWidth(WidthInto(q, net.layers[idx].w), graph'[q].attrs)
                  = net.layers[idx].out_w]_vars

(* The channels and spatial size of node j after the step, the nodes from  *)
(* before the step having the shape old: upsampling multiplies the size by *)
(* its scale, a pooling divides it by the stride, a pad adds what it pads. *)
RECURSIVE ShapeAt(_, _)
ShapeAt(j, old) ==
    IF j <= Len(graph) THEN old
    ELSE LET in == ShapeAt(graph'[j].args[1].id, old)
             attrs == graph'[j].attrs
         IN  CASE graph'[j].op = "upsampling" ->
                    [c |-> in.c, s |-> in.s * attrs.scale]
               [] graph'[j].op = "avg_pool2d" ->
                    [c |-> in.c,
                     s |-> (in.s - attrs.pool_size[1] + 2 * attrs.padding[1])
                               \div attrs.strides[1] + 1]
               [] graph'[j].op = "pad" ->
                    [c |-> in.c + attrs.pad_width[2][1] + attrs.pad_width[2][2],
                     s |-> in.s + attrs.pad_width[3][1] + attrs.pad_width[3][2]]
               [] OTHER -> in

(* The larger of two sizes is a multiple of the smaller. *)
Multiple(a, b) == a > 0 /\ b > 0 /\ (a % b = 0 \/ b % a = 0)

(* C15: a shortcut whose primary branch has size s0 and c0 channels and    *)
(* whose secondary has size s1 and c1 channels, the larger size a multiple *)
(* of the smaller and c0 >= c1, upsamples the secondary by s0/s1 when      *)
(* s0 > s1, pools it 1x1 with stride s1/s0 when s0 < s1, resamples nothing *)
(* when they are equal, pads c0 - c1 trailing zero channels iff c0 # c1,   *)
(* and adds to the primary a secondary of the primary's shape.             *)
C15_ShortcutAlignsSecondary ==
    [][(/\ AtLayer({SHORTCUT}) /\ idx > 0
        /\ Multiple(net.layers[idx].out_h,
                    net.layers[net.layers[idx].index].out_h)
        /\ net.layers[idx].out_c >= net.layers[net.layers[idx].index].out_c) =>
          LET layer == net.layers[idx]
              s0 == layer.out_h
              c0 == layer.out_c
              s1 == net.layers[layer.index].out_h
              c1 == net.layers[layer.index].out_c
              ups == NewNodes({"upsampling"})
              downs == NewNodes({"avg_pool2d"})
              pads == NewNodes({"pad"})
              adds == NewNodes({"elemwise_add"})
          IN  /\ err' = ""
              /\ (ups # {}) <=> s0 > s1
              /\ \A j \in ups : /\ graph'[j].attrs.scale = s0 \div s1
                                /\ graph'[j].args = <<sym_array[layer.index]>>
              /\ (downs # {}) <=> s0 < s1
              /\ \A j \in downs :
                    /\ graph'[j].attrs.pool_size = <<1, 1>>
                    /\ graph'[j].attrs.strides = <<s1 \div s0, s1 \div s0>>
                    /\ graph'[j].args = <<sym_array[layer.index]>>
              /\ (pads # {}) <=> c0 # c1
              /\ \A j \in pads :
                    /\ graph'[j].attrs.pad_width
                           = <<<<0, 0>>, <<0, c0 - c1>>, <<0, 0>>, <<0, 0>>>>
                    /\ graph'[j].attrs.pad_value = "0."
              /\ Cardinality(adds) = 1
              /\ \A q \in adds :
                    /\ graph'[q].args[1] = sym_array[idx - 1]
                    /\ ShapeAt(graph'[q].args[2].id, [c |-> c1, s |-> s1])
                           = [c |-> c0, s |-> s0]]_vars

C15_Witness ==
    /\ pc = "done" /\ err = "" /\ net.n = 2
    /\ net.layers[1].type = SHORTCUT
    /\ net.layers[1].out_h = 2 * net.layers[0].out_h
    /\ net.layers[1].out_c = net.layers[0].out_c + 1
    /\ \E j, q \in 1..Len(graph) :
          /\ graph[j].op = "upsampling" /\ graph[j].attrs.scale = 2
          /\ graph[q].op = "pad" /\ graph[q].args = <<SymV(j)>>

(* C16: the transposed-convolution rule called with a target_shape         *)
(* attribute raises an attribute error whatever the other attributes are,  *)
(* constructs no op before it and leaves the parameter table as it was.    *)
C16_TargetShapeRejectedFirst ==
    [][(call.state = "ready" /\ "target_shape" \in DOMAIN call.attrs) =>
          /\ err' \in {"OpAttributeUnimplemented", "OpAttributeInvalid",
                       "OpNotImplemented"}
          /\ call'.state = "raised"
          /\ graph' = graph
          /\ tvmparams' = tvmparams]_vars

C16_Witness ==
    /\ call.state = "raised" /\ err = "OpAttributeUnimplemented"
    /\ DOMAIN call.attrs = {"target_shape", "kernel", "layout", "num_filter", "no_bias"}
    /\ call.attrs["kernel"].t = "tuple" /\ call.attrs["layout"].v = "NCHW"
    /\ DOMAIN tvmparams # {}
    /\ Len(graph) = 1

(* v is a symbol the graph g holds, or a list (of lists) of such symbols. *)
RECURSIVE Produced(_, _, _)
Produced(v, g, ls) ==
    IF IsSym(v) THEN v.id \in 1..Len(g)
    ELSE /\ v.k = "list"
         /\ v.id \in 1..Len(ls)
         /\ \A e \in 1..Len(ls[v.id]) : Produced(ls[v.id][e], g, ls)

(* The indices layer i of the network refers to. *)
Refs(layers, i) ==
    (IF i > 0 THEN {i - 1} ELSE {})
        \cup (IF layers[i].type = ROUTE
              THEN {layers[i].input_layers[j] : j \in 1..layers[i].n} ELSE {})
        \cup (IF layers[i].type = SHORTCUT THEN {layers[i].index} ELSE {})

(* C17: the layers are taken in strictly increasing index order; when the  *)
(* step for layer i begins, the map from layer to symbol holds an entry    *)
(* for every index below i, each of symbols the graph already holds, so a  *)
(* reference to an earlier index is always found, and an op takes only     *)
(* outputs made before it.                                                 *)
C17_EarlierLayersAreRecorded ==
    [][/\ idx' \in {idx, idx + 1}
       /\ (pc = "running" /\ idx < net.n) =>
             /\ DOMAIN sym_array = 0..(idx - 1)
             /\ \A j \in DOMAIN sym_array : Produced(sym_array[j], graph, lists)
             /\ (\A r \in Refs(net.layers, idx) : r < idx) => err' # "KeyError"
             /\ err' = "" => idx' = idx + 1 /\ DOMAIN sym_array' = 0..idx
             /\ \A j \in (Len(graph) + 1)..Len(graph') :
                   \A a \in 1..Len(graph'[j].args) : graph'[j].args[a].id < j]_vars

C17_Witness ==
    /\ pc = "running" /\ idx = 3 /\ net.n = 3
    /\ net.layers[0].type = BLANK
    /\ net.layers[1].type = RNN
    /\ net.layers[2].type = ROUTE /\ net.layers[2].input_layers = <<1>>
    /\ DOMAIN sym_array = 0..2

(* Node j is segment i of the split, and node j is op applied to it. *)
Piece(j, i) == graph'[j].op = "__getitem__" /\ graph'[j].attrs.index = i

Through(j, op, i) == graph'[j].op = op /\ Piece(graph'[j].args[1].id, i)

(* C19: for every setting of the background and softmax flags of a region  *)
(* layer the rule succeeds and returns the four segments concatenated in   *)
(* their order and reshaped to the input shape: the box centre through a   *)
(* sigmoid, the box size as it is, the objectness through a sigmoid iff    *)
(* background is unset, the class scores through a softmax iff softmax is  *)
(* set and as they are otherwise.                                          *)
C19_RegionForEveryToggle ==
    [][AtLayer({REGION}) =>
          LET layer == net.layers[idx]
              cats == NewNodes({"concatenate"})
          IN  /\ err' = ""
              /\ Cardinality(cats) = 1
              /\ \A q \in cats :
                    /\ Len(graph'[q].args) = 4
                    /\ Through(graph'[q].args[1].id, "sigmoid", 0)
                    /\ Piece(graph'[q].args[2].id, 1)
                    /\ IF layer.background = 0
                       THEN Through(graph'[q].args[3].id, "sigmoid", 2)
                       ELSE Piece(graph'[q].args[3].id, 2)
                    /\ IF layer.softmax # 0
                       THEN Through(graph'[q].args[4].id, "softmax", 3)
                       ELSE Piece(graph'[q].args[4].id, 3)
                    /\ \E r \in NewNodes({"reshape"}) :
                          /\ sym_array'[idx] = SymV(r)
                          /\ graph'[r].args = <<SymV(q)>>
                          /\ graph'[r].attrs.shape
                                 = <<1, layer.c, layer.h, layer.w>>]_vars

(* C20: the conversion of a softmax layer divides the input by the         *)
(* temperature before the softmax iff the temperature is set and is not 1; *)
(* a layer of temperature 1 gets no division.                              *)
C20_DivisionUnlessTemperatureOne ==
    [][(AtLayer({SOFTMAX}) /\ err' = "") =>
          LET layer == net.layers[idx]
              divs == NewNodes({"__div_scalar__"})
          IN  /\ (divs # {}) <=> (layer.temperature # 0 /\ layer.temperature # 1)
              /\ \A j \in divs :
                    /\ graph'[j].attrs.scalar = Fl(10 * layer.temperature)
                    /\ \A q \in NewNodes({"flatten", "softmax"}) : q > j]_vars

(* C21: a shortcut whose secondary branch has more channels than its       *)
(* primary branch is rejected: the step fails, and builds neither a        *)
(* channel pad of negative width nor an element-wise add.                  *)
C21_WiderSecondaryRejected ==
    [][(/\ AtLayer({SHORTCUT}) /\ idx > 0
        /\ net.layers[net.layers[idx].index].out_c > net.layers[idx].out_c) =>
          /\ err' # ""
          /\ NewNodes({"pad", "elemwise_add"}) = {}]_vars
====
